---- MODULE Spec2Model ----
(***************************************************************************)
(* Analysis engine of SOCR/socr-qi-app: the dispatcher analyzeTimeSeries,  *)
(* the series utilities of seriesUtils.ts and the routines the dispatcher  *)
(* hands the points to.  A state holds one dataset, the outcome of the     *)
(* last engine call made on it, and what the engine reads of its           *)
(* environment: the clock (new Date()) and the next draw of Math.random.   *)
(* Numbers are exact fractions: the results are those of the arithmetic    *)
(* the code writes down, without the rounding of IEEE doubles.             *)
(***************************************************************************)
EXTENDS Integers, Sequences, FiniteSets, TLC

VARIABLES data, out, now, rnd, descent

vars == <<data, out, now, rnd, descent>>

\* ------------------------------------------------------------------------
\* Bounds and program constants
\* ------------------------------------------------------------------------

\* Largest number of data points of a dataset whose points may be untagged.
MaxPoints == 2

\* Largest number of data points of a dataset all of whose points are tagged
\* with a series id.
MaxTaggedPoints == 4

\* One day in milliseconds (24 * 60 * 60 * 1000).
DayMs == 86400000

\* Number of forecast points of the time-mode regression.
ForecastCount == 10

\* Largest number of data points of a dataset of the numeric family, and the
\* largest value of its points.
MaxValues == 3
MaxValue == 2

\* Largest forecastHorizon a caller supplies, and the largest number of
\* points of a series of the forecasting family.
MaxHorizon == 2
MaxTimedPoints == 3

\* Largest number of points of a series of the classification family.
MaxLabelledPoints == 3

\* ------------------------------------------------------------------------
\* Values of the data model
\* ------------------------------------------------------------------------

\* An optional field or parameter that is not there (undefined), and null.
Absent == "<absent>"
Null == "<null>"

\* JavaScript truthiness of an optional string: undefined, null and the
\* empty string are falsy.
Truthy(s) == s \notin {Absent, Null, ""}

\* A timestamp string.  Two forms of string are told apart: the date-only
\* form ("1970-01-02") and the full ISO form ("1970-01-02T00:00:00.000Z").
\* Two timestamps are the same string iff they have the same form and the
\* same instant; they denote the same instant iff their ms agree.
Timestamp(f, t) == [form |-> f, ms |-> t]

\* new Date(timestamp).getTime()
getTime(ts) == ts.ms

\* new Date(ms).toISOString()
toISOString(t) == Timestamp("iso", t)

Timestamps == {Timestamp("date", 0), Timestamp("iso", 0), Timestamp("date", DayMs)}

SeriesIds == {"A", "D"}

SeriesTags == {Absent} \cup SeriesIds

Formats == {"wide", "long"}

DataPoint(ts, v, sid) ==
  [timestamp |-> ts, value |-> v, seriesId |-> sid, category |-> Absent]

PointKinds == [timestamp : Timestamps, seriesId : SeriesTags]

TaggedKinds == [timestamp : Timestamps, seriesId : SeriesIds]

\* The datasets of the model, named "D": the i-th point has value i (so that
\* every point of a dataset can be told from the others) and any timestamp
\* and series tag, in any order.
TimeSeriesData(f, kinds) ==
  [id |-> "ds", name |-> "D", format |-> f,
   dataPoints |-> [i \in 1..Len(kinds) |->
                     DataPoint(kinds[i].timestamp, i, kinds[i].seriesId)]]

Datasets ==
  {TimeSeriesData(f, kinds) :
     f \in Formats,
     kinds \in UNION {[1..n -> PointKinds] : n \in 0..MaxPoints}
              \cup UNION {[1..n -> TaggedKinds] : n \in 0..MaxTaggedPoints}}

\* ------------------------------------------------------------------------
\* Numbers
\* ------------------------------------------------------------------------

Abs(x) == IF x < 0 THEN -x ELSE x

RECURSIVE GCD(_, _)
GCD(a, b) == IF b = 0 THEN a ELSE GCD(b, a % b)

\* A JavaScript number as the exact fraction n/d in lowest terms, d >= 0.
\* d = 0 is what a division by zero gives: Infinity (n = 1), -Infinity
\* (n = -1) and NaN (n = 0).
Number(n, d) ==
  IF d = 0 THEN [n |-> IF n > 0 THEN 1 ELSE IF n < 0 THEN -1 ELSE 0, d |-> 0]
  ELSE LET g == GCD(Abs(n), Abs(d))
       IN IF d > 0 THEN [n |-> n \div g, d |-> d \div g]
          ELSE [n |-> (-n) \div g, d |-> (-d) \div g]

Int2Number(i) == [n |-> i, d |-> 1]

NaN == [n |-> 0, d |-> 0]

isNaN(a) == a.n = 0 /\ a.d = 0

\* a + b, a - b, a * b and a / b of finite a and b (b = 0 in a / b gives
\* the infinities and NaN).
Plus(a, b) ==
  IF a.d = 0 \/ b.d = 0 THEN Number(a.n * b.d + b.n * a.d, 0)
  ELSE LET g == GCD(a.d, b.d)
       IN Number(a.n * (b.d \div g) + b.n * (a.d \div g), (a.d \div g) * b.d)

Minus(a, b) == Plus(a, [n |-> -b.n, d |-> b.d])

Times(a, b) ==
  IF a.d = 0 \/ b.d = 0 \/ a.n = 0 \/ b.n = 0 THEN Number(a.n * b.n, a.d * b.d)
  ELSE LET g == GCD(Abs(a.n), b.d)
           h == GCD(Abs(b.n), a.d)
       IN Number((a.n \div g) * (b.n \div h), (a.d \div h) * (b.d \div g))

DividedBy(a, b) ==
  IF isNaN(a) \/ isNaN(b) THEN NaN
  ELSE IF b.n < 0 THEN Number(-(a.n * b.d), a.d * (-b.n))
  ELSE Number(a.n * b.d, a.d * b.n)

\* a < b and a <= b; every comparison with NaN is false.
LessThan(a, b) ==
  /\ ~isNaN(a) /\ ~isNaN(b)
  /\ IF a.d = 0 \/ b.d = 0
     THEN (IF a.d = 0 THEN a.n ELSE 0) < (IF b.d = 0 THEN b.n ELSE 0)
     ELSE a.n * b.d < b.n * a.d

AtMost(a, b) == ~isNaN(a) /\ ~isNaN(b) /\ ~LessThan(b, a)

\* x > k * Math.sqrt(v) for finite x and k and finite v >= 0, decided on
\* the squares.
ExceedsRootMultiple(x, k, v) ==
  LET xx == Times(x, x)
      kkv == Times(Times(k, k), v)
  IN IF k.n >= 0
     THEN x.n > 0 /\ LessThan(kkv, xx)
     ELSE IF x.n >= 0 THEN x.n > 0 \/ kkv.n > 0
          ELSE LessThan(xx, kkv)

\* ------------------------------------------------------------------------
\* dataUtils.ts
\* ------------------------------------------------------------------------

\* Math.random().toString(36)...: the next draw of the random source.
generateId == rnd

\* Array.prototype.sort with the comparator a.time - b.time: a stable sort,
\* here as insertion of each element after the elements not later than it.
RECURSIVE InsertByTime(_, _)
InsertByTime(s, p) ==
  IF s = <<>> THEN <<p>>
  ELSE IF getTime(p.timestamp) < getTime(Head(s).timestamp)
       THEN <<p>> \o s
       ELSE <<Head(s)>> \o InsertByTime(Tail(s), p)

RECURSIVE sortDataPointsByTime(_)
sortDataPointsByTime(dataPoints) ==
  IF dataPoints = <<>> THEN <<>>
  ELSE InsertByTime(sortDataPointsByTime(SubSeq(dataPoints, 1, Len(dataPoints) - 1)),
                    dataPoints[Len(dataPoints)])

\* ------------------------------------------------------------------------
\* seriesUtils.ts
\* ------------------------------------------------------------------------

\* As extractSeriesData, filtering only when the dataset is flagged wide.
extractSeriesData_wideOnly(d, seriesId) ==
  IF d.format = "wide"
  THEN SelectSeq(d.dataPoints, LAMBDA p : p.seriesId = seriesId)
  ELSE IF d.name = seriesId THEN d.dataPoints
       ELSE <<>>

extractSeriesData(d, seriesId) ==
  IF d.format = "wide"
     \/ \E i \in 1..Len(d.dataPoints) : Truthy(d.dataPoints[i].seriesId)
  THEN SelectSeq(d.dataPoints, LAMBDA p : p.seriesId = seriesId)
  ELSE IF d.name = seriesId THEN d.dataPoints
       ELSE <<>>

\* predictorPoints.find(p => p.timestamp === timestamp), then
\* point ? point.value : 0
\* As valueAt, matching the instants the timestamps denote.
RECURSIVE valueAt_byInstant(_, _)
valueAt_byInstant(predictorPoints, timestamp) ==
  IF predictorPoints = <<>> THEN 0
  ELSE IF getTime(Head(predictorPoints).timestamp) = getTime(timestamp)
       THEN Head(predictorPoints).value
       ELSE valueAt_byInstant(Tail(predictorPoints), timestamp)

RECURSIVE valueAt(_, _)
valueAt(predictorPoints, timestamp) ==
  IF predictorPoints = <<>> THEN 0
  ELSE IF Head(predictorPoints).timestamp = timestamp
       THEN Head(predictorPoints).value
       ELSE valueAt(Tail(predictorPoints), timestamp)

combineSeriesForAnalysis(d, targetSeriesId, predictorSeriesIds) ==
  LET targetPoints == extractSeriesData(d, targetSeriesId)
      timestamps == [k \in 1..Len(targetPoints) |-> targetPoints[k].timestamp]
  IN [timestamps |-> timestamps,
      targetValues |-> [k \in 1..Len(targetPoints) |-> targetPoints[k].value],
      predictorValues |->
        [j \in 1..Len(predictorSeriesIds) |->
           [k \in 1..Len(timestamps) |->
              valueAt(extractSeriesData(d, predictorSeriesIds[j]), timestamps[k])]]]

\* seriesIds.includes(point.seriesId || data.name)
isCounted(d, seriesIds, point) ==
  LET key == IF Truthy(point.seriesId) THEN point.seriesId ELSE d.name
  IN \E j \in 1..Len(seriesIds) : seriesIds[j] = key

\* timestampCounts.get(timestamp): the number of counted points at it.
timestampCount(d, seriesIds, timestamp) ==
  Cardinality({i \in 1..Len(d.dataPoints) :
                 /\ isCounted(d, seriesIds, d.dataPoints[i])
                 /\ d.dataPoints[i].timestamp = timestamp})

\* The Set allTimestamps as the array of its elements in insertion order.
RECURSIVE allTimestamps(_, _, _)
allTimestamps(d, seriesIds, n) ==
  IF n = 0 THEN <<>>
  ELSE LET before == allTimestamps(d, seriesIds, n - 1)
           point == d.dataPoints[n]
       IN IF /\ isCounted(d, seriesIds, point)
             /\ \A k \in 1..Len(before) : before[k] # point.timestamp
          THEN Append(before, point.timestamp)
          ELSE before

filterValidAnalysisPoints(d, seriesIds) ==
  SelectSeq(allTimestamps(d, seriesIds, Len(d.dataPoints)),
            LAMBDA t : timestampCount(d, seriesIds, t) = Len(seriesIds))

\* ------------------------------------------------------------------------
\* Calls and their outcomes
\* ------------------------------------------------------------------------

\* The outcome of a call: what it returned or the error it threw, and what
\* it did on the way.  extracted: the dispatcher called extractSeriesData;
\* working: the dispatcher's analysisDataPoints; routine: the routine that
\* ran; input: the points the routine computed over, one per entry of its
\* per-point output (classifications, anomalies, historical moving averages,
\* probabilities, predictions).  id, createdAt and results are the fields of
\* that name of the AnalysisResult; knobs are the routine's local constants
\* read from the parameters.
NoKnobs ==
  [threshold |-> <<>>, zScoreThreshold |-> <<>>, windowSize |-> <<>>,
   forecastHorizon |-> <<>>, regularization |-> <<>>, linkFunction |-> <<>>]

NoOutcome ==
  [status |-> "none", error |-> "none", resultType |-> "none",
   routine |-> "none", extracted |-> FALSE, working |-> <<>>, input |-> <<>>,
   points |-> <<>>, timestamps |-> <<>>, targetValues |-> <<>>,
   predictorValues |-> <<>>, forecastPoints |-> <<>>,
   id |-> Absent, createdAt |-> Timestamp("none", 0), results |-> <<>>,
   knobs |-> NoKnobs]

\* A call: the operation and its arguments.  knobs are the entries of
\* options.parameters beside the series names, each <<>> (not there) or
\* <<x>> (the number x, or the string x of linkFunction).
NoCall ==
  [op |-> "none", type |-> Absent, targetSeries |-> Absent,
   predictorSeries |-> <<>>, seriesId |-> Absent, seriesIds |-> <<>>,
   knobs |-> NoKnobs]

\* throw new Error(...)
Throw(e) == [NoOutcome EXCEPT !.status = "error", !.error = e]

\* As Result, listing the time of creation among the result's timestamps.
Result_timed(type, points) ==
  [NoOutcome EXCEPT !.status = "ok", !.resultType = type, !.routine = type,
                    !.input = points, !.id = generateId,
                    !.createdAt = toISOString(now),
                    !.timestamps = <<toISOString(now)>>]

\* A routine's AnalysisResult of the given type over the given points, with
\* id: generateId() and createdAt: new Date().toISOString().
Result(type, points) ==
  [NoOutcome EXCEPT !.status = "ok", !.resultType = type, !.routine = type,
                    !.input = points, !.id = generateId,
                    !.createdAt = toISOString(now)]

\* parameters?.knob || fallback: the fallback stands in when the knob is not
\* there and when it is falsy (0 and NaN).
OrElse(knob, fallback) ==
  IF knob # <<>> /\ knob[1].n # 0 THEN knob[1] ELSE fallback

\* ------------------------------------------------------------------------
\* analysisUtils.ts: the statistics
\* ------------------------------------------------------------------------

\* sortedDataPoints.map(point => point.value)
valuesOf(sortedDataPoints) ==
  [i \in 1..Len(sortedDataPoints) |-> Int2Number(sortedDataPoints[i].value)]

\* values.map(Number): the integers of a series as numbers.
Numbers(vs) == [i \in 1..Len(vs) |-> Int2Number(vs[i])]

\* numbers.reduce((a, b) => a + b, 0)
RECURSIVE sum(_)
sum(numbers) ==
  IF numbers = <<>> THEN Int2Number(0)
  ELSE Plus(sum(SubSeq(numbers, 1, Len(numbers) - 1)), numbers[Len(numbers)])

\* sum / count
mean(values) == DividedBy(sum(values), Int2Number(Len(values)))

\* As variance, dividing by count - 1.
variance_sample(values, m) ==
  DividedBy(sum([i \in 1..Len(values) |->
                   Times(Minus(values[i], m), Minus(values[i], m))]),
            Int2Number(Len(values) - 1))

\* values.reduce((acc, val) => acc + Math.pow(val - mean, 2), 0) / count
variance(values, m) ==
  DividedBy(sum([i \in 1..Len(values) |->
                   Times(Minus(values[i], m), Minus(values[i], m))]),
            Int2Number(Len(values)))

RECURSIVE InsertByValue(_, _)
InsertByValue(s, v) ==
  IF s = <<>> THEN <<v>>
  ELSE IF LessThan(v, Head(s)) THEN <<v>> \o s
       ELSE <<Head(s)>> \o InsertByValue(Tail(s), v)

\* As sortedValuesOf, leaving the values in the order of the points.
sortedValuesOf_unsorted(values) == values

\* [...values].sort((a, b) => a - b)
RECURSIVE sortedValuesOf(_)
sortedValuesOf(values) ==
  IF values = <<>> THEN <<>>
  ELSE InsertByValue(sortedValuesOf(SubSeq(values, 1, Len(values) - 1)),
                     values[Len(values)])

\* As medianOf, taking the upper middle value of an even count.
medianOf_upperMiddle(sortedValues) ==
  sortedValues[(Len(sortedValues) \div 2) + 1]

\* The median of the sorted values (indices here count from 1).
medianOf(sortedValues) ==
  LET n == Len(sortedValues)
  IN IF n % 2 = 0
     THEN DividedBy(Plus(sortedValues[n \div 2], sortedValues[(n \div 2) + 1]),
                    Int2Number(2))
     ELSE sortedValues[(n \div 2) + 1]

\* sortedValues[Math.floor(sortedValues.length * 0.25)] and
\* sortedValues[Math.floor(sortedValues.length * 0.75)]
q1Of(sortedValues) == sortedValues[(Len(sortedValues) \div 4) + 1]

q3Of(sortedValues) == sortedValues[((3 * Len(sortedValues)) \div 4) + 1]

\* As trendOf, relative to the last value.
trendOf_relativeToLast(sortedDataPoints) ==
  IF Len(sortedDataPoints) > 1
  THEN LET firstValue == Int2Number(sortedDataPoints[1].value)
           lastValue == Int2Number(sortedDataPoints[Len(sortedDataPoints)].value)
       IN Times(DividedBy(Minus(lastValue, firstValue), lastValue),
                Int2Number(100))
  ELSE Int2Number(0)

\* The percentage change from the first to the last point in time.
trendOf(sortedDataPoints) ==
  IF Len(sortedDataPoints) > 1
  THEN LET firstValue == Int2Number(sortedDataPoints[1].value)
           lastValue == Int2Number(sortedDataPoints[Len(sortedDataPoints)].value)
       IN Times(DividedBy(Minus(lastValue, firstValue), firstValue),
                Int2Number(100))
  ELSE Int2Number(0)

\* As predictedClass, with a strict comparison.
predictedClass_strict(value, threshold) ==
  IF LessThan(threshold, Int2Number(value)) THEN "High Risk" ELSE "Low Risk"

\* point.value >= threshold ? 'High Risk' : 'Low Risk'
predictedClass(value, threshold) ==
  IF AtMost(threshold, Int2Number(value)) THEN "High Risk" ELSE "Low Risk"

\* As isAnomaly, flagging a z-score equal to the threshold as well.
isAnomaly_inclusive(value, m, v, zScoreThreshold) ==
  LET deviation == Minus(Int2Number(value), m)
      distance == IF deviation.n < 0 THEN Minus(Int2Number(0), deviation)
                  ELSE deviation
  IN IF isNaN(m) \/ isNaN(v) THEN FALSE
     ELSE IF v.n = 0 THEN deviation.n # 0
     ELSE ~ExceedsRootMultiple(Minus(Int2Number(0), distance),
                               Minus(Int2Number(0), zScoreThreshold), v)

\* zScore = (point.value - mean) / stdDev and
\* Math.abs(zScore) > zScoreThreshold.  With stdDev = 0 the z-score is
\* NaN (0 / 0, never flagged) or an infinity (flagged).
isAnomaly(value, m, v, zScoreThreshold) ==
  LET deviation == Minus(Int2Number(value), m)
      distance == IF deviation.n < 0 THEN Minus(Int2Number(0), deviation)
                  ELSE deviation
  IN IF isNaN(m) \/ isNaN(v) THEN FALSE
     ELSE IF v.n = 0 THEN deviation.n # 0
     ELSE ExceedsRootMultiple(distance, zScoreThreshold, v)

\* ------------------------------------------------------------------------
\* analysisUtils.ts: the routines
\* ------------------------------------------------------------------------

\* results.stdDev is Math.sqrt(variance): the results carry the variance.
\* With no points min is undefined and min.toFixed(2) throws a TypeError.
performDescriptiveAnalysis(d, sortedDataPoints, targetSeriesId) ==
  LET values == valuesOf(sortedDataPoints)
      m == mean(values)
      sortedValues == sortedValuesOf(values)
  IN IF Len(sortedDataPoints) = 0
     THEN [Throw("typeError") EXCEPT !.routine = "descriptive"]
     ELSE [Result("descriptive", sortedDataPoints) EXCEPT
             !.results =
                [count |-> Len(values),
                 mean |-> m,
                 median |-> medianOf(sortedValues),
                 min |-> sortedValues[1],
                 max |-> sortedValues[Len(sortedValues)],
                 variance |-> variance(values, m),
                 q1 |-> q1Of(sortedValues),
                 q3 |-> q3Of(sortedValues),
                 iqr |-> Minus(q3Of(sortedValues), q1Of(sortedValues)),
                 trend |-> trendOf(sortedDataPoints)]]

\* As isHighRisk, every category standing for 'High Risk'.
isHighRisk_anyCategory(point) == Truthy(point.category)

\* point.category === 'High Risk'
isHighRisk(point) == point.category = "High Risk"

\* x || 0 of a number: 0 and NaN are falsy.
orZero(x) == IF isNaN(x) \/ x.n = 0 THEN Int2Number(0) ELSE x

\* The metrics of a classification: all 0 unless some point has a truthy
\* category; then the confusion counts against isHighRisk give them.
classificationMetrics(sortedDataPoints, classifications) ==
  LET indices == 1..Len(sortedDataPoints)
      predicted(i) == classifications[i].predictedClass = "High Risk"
      actual(i) == isHighRisk(sortedDataPoints[i])
      count(P(_)) == Int2Number(Cardinality({i \in indices : P(i)}))
      truePositives == count(LAMBDA i : predicted(i) /\ actual(i))
      falsePositives == count(LAMBDA i : predicted(i) /\ ~actual(i))
      trueNegatives == count(LAMBDA i : ~predicted(i) /\ ~actual(i))
      falseNegatives == count(LAMBDA i : ~predicted(i) /\ actual(i))
      precision == orZero(DividedBy(truePositives,
                                    Plus(truePositives, falsePositives)))
      recall == orZero(DividedBy(truePositives,
                                 Plus(truePositives, falseNegatives)))
  IN IF \E i \in indices : Truthy(sortedDataPoints[i].category)
     THEN [accuracy |-> DividedBy(Plus(truePositives, trueNegatives),
                                  Int2Number(Len(sortedDataPoints))),
           precision |-> precision,
           recall |-> recall,
           f1Score |-> orZero(DividedBy(Times(Int2Number(2),
                                              Times(precision, recall)),
                                        Plus(precision, recall)))]
     ELSE [accuracy |-> Int2Number(0), precision |-> Int2Number(0),
           recall |-> Int2Number(0), f1Score |-> Int2Number(0)]

\* results carries the metrics of the returned object as well.
performClassificationAnalysis(d, sortedDataPoints, parameters, targetSeriesId) ==
  LET threshold == OrElse(parameters.threshold, mean(valuesOf(sortedDataPoints)))
      classifications ==
        [i \in 1..Len(sortedDataPoints) |->
           [timestamp |-> sortedDataPoints[i].timestamp,
            actualValue |-> sortedDataPoints[i].value,
            predictedClass |->
              predictedClass(sortedDataPoints[i].value, threshold),
            threshold |-> threshold]]
  IN [Result("classification", sortedDataPoints) EXCEPT
        !.knobs = [NoKnobs EXCEPT !.threshold = <<threshold>>],
        !.results =
           [threshold |-> threshold,
            classifications |-> classifications,
            metrics |-> classificationMetrics(sortedDataPoints, classifications)]]

\* As tooFewPoints, one point being enough.
tooFewPoints_none(sortedDataPoints) == Len(sortedDataPoints) < 1

\* sortedDataPoints.length < 2
tooFewPoints(sortedDataPoints) == Len(sortedDataPoints) < 2

\* As historicalPrediction, averaging the window that ends before the point.
historicalPrediction_lagged(sortedDataPoints, i, windowSize) ==
  IF i - 1 < windowSize - 1
  THEN Int2Number(sortedDataPoints[i].value)
  ELSE DividedBy(sum([j \in 1..windowSize |->
                        Int2Number(sortedDataPoints[IF i - j >= 1 THEN i - j
                                                    ELSE 1].value)]),
                 Int2Number(windowSize))

\* The predicted value of the i-th point (i counts from 1, the code's index
\* is i - 1): the actual value before a full window, then the sum of the
\* windowSize values ending at the point, divided by windowSize.
historicalPrediction(sortedDataPoints, i, windowSize) ==
  IF i - 1 < windowSize - 1
  THEN Int2Number(sortedDataPoints[i].value)
  ELSE DividedBy(sum([j \in 1..windowSize |->
                        Int2Number(sortedDataPoints[i - j + 1].value)]),
                 Int2Number(windowSize))

\* The strictly positive gaps between consecutive points.
positiveIntervals(sortedDataPoints) ==
  SelectSeq([i \in 1..(Len(sortedDataPoints) - 1) |->
               getTime(sortedDataPoints[i + 1].timestamp)
                 - getTime(sortedDataPoints[i].timestamp)],
            LAMBDA interval : interval > 0)

\* As avgIntervalMs, averaging over all the gaps.
avgIntervalMs_allGaps(sortedDataPoints) ==
  LET intervals == positiveIntervals(sortedDataPoints)
  IN IF Len(intervals) > 0
     THEN DividedBy(sum(Numbers(intervals)),
                    Int2Number(Len(sortedDataPoints) - 1))
     ELSE Int2Number(DayMs)

\* intervalCount > 0 ? totalInterval / intervalCount : 86400000
avgIntervalMs(sortedDataPoints) ==
  LET intervals == positiveIntervals(sortedDataPoints)
  IN IF Len(intervals) > 0
     THEN DividedBy(sum(Numbers(intervals)), Int2Number(Len(intervals)))
     ELSE Int2Number(DayMs)

\* new Date(futureTime).toISOString(): the time value of a Date is a whole
\* number of milliseconds, a fraction is cut off.
futureTimestamp(futureTime) == toISOString(futureTime.n \div futureTime.d)

\* sortedDataPoints.slice(-windowSize).map(point => point.value)
lastValuesOf(sortedDataPoints, windowSize) ==
  LET n == Len(sortedDataPoints)
      from == IF windowSize >= n THEN 1 ELSE n - windowSize + 1
  IN [k \in 1..(n - from + 1) |-> Int2Number(sortedDataPoints[from + k - 1].value)]

\* The forecasts 1..k: each is the sum of lastValues divided by windowSize,
\* after which lastValues drops its first value and takes the forecast.
RECURSIVE forecastsOf(_, _, _)
forecastsOf(lastValues, windowSize, k) ==
  IF k = 0 THEN <<>>
  ELSE LET forecast == DividedBy(sum(lastValues), Int2Number(windowSize))
       IN <<forecast>> \o forecastsOf(Append(Tail(lastValues), forecast),
                                      windowSize, k - 1)

\* The number of i = 1, 2, ... with i <= forecastHorizon, for a finite
\* forecastHorizon >= 0.
passesWithin(forecastHorizon) == forecastHorizon.n \div forecastHorizon.d

\* The entries of the points: { timestamp, actual, predicted }.
historicalOf(sortedDataPoints, windowSize) ==
  [i \in 1..Len(sortedDataPoints) |->
     [timestamp |-> sortedDataPoints[i].timestamp,
      actual |-> <<Int2Number(sortedDataPoints[i].value)>>,
      predicted |-> historicalPrediction(sortedDataPoints, i, windowSize)]]

\* The entries the loop pushes: { timestamp, predicted }, the i-th at
\* lastDataPointTime + i * avgIntervalMs.
futureOf(sortedDataPoints, forecasts) ==
  [i \in 1..Len(forecasts) |->
     [timestamp |->
        futureTimestamp(
          Plus(Int2Number(getTime(sortedDataPoints[Len(sortedDataPoints)].timestamp)),
               Times(Int2Number(i), avgIntervalMs(sortedDataPoints)))),
      actual |-> <<>>,
      predicted |-> forecasts[i]]]

\* actual - predicted of the entries that have an actual value.
errorsOf(historical) ==
  [i \in 1..Len(historical) |->
     Minus(historical[i].actual[1], historical[i].predicted)]

\* mse and mae over those entries; forecast is
\* movingAverages.slice(-forecastHorizon).
forecastResult(sortedDataPoints, windowSize, forecastHorizon, movingAverages, errors) ==
  [Result("forecasting", sortedDataPoints) EXCEPT
     !.knobs = [NoKnobs EXCEPT !.windowSize = <<windowSize>>,
                               !.forecastHorizon = <<forecastHorizon>>],
     !.results =
        [windowSize |-> windowSize,
         forecastHorizon |-> forecastHorizon,
         movingAverages |-> movingAverages,
         forecast |->
           SubSeq(movingAverages,
                  IF passesWithin(forecastHorizon) >= Len(movingAverages) THEN 1
                  ELSE Len(movingAverages) - passesWithin(forecastHorizon) + 1,
                  Len(movingAverages)),
         mse |-> DividedBy(sum([i \in 1..Len(errors) |->
                                  Times(errors[i], errors[i])]),
                           Int2Number(Len(errors))),
         mae |-> DividedBy(sum([i \in 1..Len(errors) |->
                                  IF errors[i].n < 0
                                  THEN Minus(Int2Number(0), errors[i])
                                  ELSE errors[i]]),
                           Int2Number(Len(errors)))]]

forecastWith(sortedDataPoints, windowSize, forecastHorizon) ==
  IF tooFewPoints(sortedDataPoints)
  THEN [Throw("insufficientData") EXCEPT !.routine = "forecasting"]
  ELSE forecastResult(
         sortedDataPoints, windowSize, forecastHorizon,
         historicalOf(sortedDataPoints, windowSize.n)
           \o futureOf(sortedDataPoints,
                       forecastsOf(lastValuesOf(sortedDataPoints, windowSize.n),
                                   windowSize.n,
                                   passesWithin(forecastHorizon))),
         errorsOf(historicalOf(sortedDataPoints, windowSize.n)))

\* The moving averages over the points come first and throw nothing; then
\* the length is checked.  windowSize is a whole number and forecastHorizon
\* a finite positive number here (slice(-forecastHorizon) cuts a fraction
\* off).  metrics.rmse is Math.sqrt(mse): the results carry mse.
performForecastingAnalysis(d, sortedDataPoints, parameters, targetSeriesId) ==
  forecastWith(sortedDataPoints,
               OrElse(parameters.windowSize, Int2Number(3)),
               OrElse(parameters.forecastHorizon, Int2Number(100)))

\* The points with their flags.
anomaliesOf(sortedDataPoints, m, v, zScoreThreshold) ==
  [i \in 1..Len(sortedDataPoints) |->
     [timestamp |-> sortedDataPoints[i].timestamp,
      value |-> sortedDataPoints[i].value,
      isAnomaly |-> isAnomaly(sortedDataPoints[i].value, m, v, zScoreThreshold)]]

anomalyResult(sortedDataPoints, zScoreThreshold, m, v, anomalies) ==
  [Result("anomaly", sortedDataPoints) EXCEPT
     !.knobs = [NoKnobs EXCEPT !.zScoreThreshold = <<zScoreThreshold>>],
     !.results =
        [zScoreThreshold |-> zScoreThreshold,
         mean |-> m,
         variance |-> v,
         anomalies |-> anomalies,
         anomalyCount |->
           Cardinality({i \in 1..Len(anomalies) : anomalies[i].isAnomaly})]]

anomaliesAroundMean(sortedDataPoints, zScoreThreshold, m) ==
  anomalyResult(sortedDataPoints, zScoreThreshold, m,
                variance(valuesOf(sortedDataPoints), m),
                anomaliesOf(sortedDataPoints, m,
                            variance(valuesOf(sortedDataPoints), m),
                            zScoreThreshold))

\* results.stdDev is Math.sqrt(variance): the results carry the variance.
performAnomalyDetection(d, sortedDataPoints, parameters, targetSeriesId) ==
  anomaliesAroundMean(sortedDataPoints,
                      OrElse(parameters.zScoreThreshold, Int2Number(2)),
                      mean(valuesOf(sortedDataPoints)))

\* Math.min(...series) and Math.max(...series) of a non-empty series.
minOf(series) ==
  CHOOSE x \in {series[i] : i \in 1..Len(series)} :
    \A i \in 1..Len(series) : AtMost(x, series[i])

maxOf(series) ==
  CHOOSE x \in {series[i] : i \in 1..Len(series)} :
    \A i \in 1..Len(series) : AtMost(series[i], x)

\* series.map(val => range > 0 ? (val - min) / range : 0)
normalize(series) ==
  LET range == Minus(maxOf(series), minOf(series))
  IN [i \in 1..Len(series) |->
        IF range.n > 0 THEN DividedBy(Minus(series[i], minOf(series)), range)
        ELSE Int2Number(0)]

\* (val - xMin) / xRange of the times of the points, in the caller's order:
\* all NaN (0 / 0) when the points are at one instant.
xNormOf(dataPoints) ==
  LET x == [i \in 1..Len(dataPoints) |->
              Int2Number(getTime(dataPoints[i].timestamp))]
      xMin == minOf(x)
      xRange == Minus(maxOf(x), xMin)
  IN [i \in 1..Len(x) |-> DividedBy(Minus(x[i], xMin), xRange)]

\* yNorm.map(y => y >= 0.5 ? 1 : 0) of the values normalised to [0, 1].
binarizedYOf(dataPoints) ==
  LET y == valuesOf(dataPoints)
      yMin == minOf(y)
      spread == Minus(maxOf(y), yMin)
      yNorm == [i \in 1..Len(y) |->
                  DividedBy(Minus(y[i], yMin),
                            IF spread.n > 0 THEN spread ELSE Int2Number(1))]
  IN [i \in 1..Len(y) |-> IF AtMost(Number(1, 2), yNorm[i]) THEN 1 ELSE 0]

\* Number of parameter updates of the gradient descent.
logisticIterations == 1000

\* The gradient descent runs on Math.exp and is not computed here.  Of the
\* probabilities sigmoid(beta0 + beta1 * xNorm[i]) the order is kept: they
\* are NaN when xNorm is, and otherwise rise with xNorm, fall with it or are
\* all the same as the slope beta1 is positive, negative or zero; which of
\* the three the descent arrives at is the variable descent.  rankOf gives
\* numbers in the order of the probabilities.
rankOf(xNorm) ==
  [i \in 1..Len(xNorm) |->
     IF isNaN(xNorm[i]) THEN NaN
     ELSE CASE descent = "positive" -> xNorm[i]
            [] descent = "negative" -> Minus(Int2Number(0), xNorm[i])
            [] descent = "zero" -> Int2Number(0)]

\* .sort((a, b) => b.prob - a.prob): descending and stable; a difference
\* that is NaN counts as 0.
RECURSIVE InsertByProb(_, _)
InsertByProb(s, pair) ==
  IF s = <<>> THEN <<pair>>
  ELSE IF LessThan(Head(s).prob, pair.prob) THEN <<pair>> \o s
       ELSE <<Head(s)>> \o InsertByProb(Tail(s), pair)

RECURSIVE sortedPairsOf(_)
sortedPairsOf(pairs) ==
  IF pairs = <<>> THEN <<>>
  ELSE InsertByProb(sortedPairsOf(SubSeq(pairs, 1, Len(pairs) - 1)),
                    pairs[Len(pairs)])

\* As rocArea, a negative taking the positives met after it.
RECURSIVE rocArea_after(_, _, _, _, _)
rocArea_after(sortedPairs, i, positiveCount, negativeCount, acc) ==
  IF i > Len(sortedPairs)
  THEN Plus(acc.auc,
            Times(Minus(Int2Number(1), acc.previousFalsePositiveRate),
                  acc.truePositiveRate))
  ELSE IF sortedPairs[i].actual = 1
       THEN rocArea_after(sortedPairs, i + 1, positiveCount, negativeCount,
                          [acc EXCEPT !.truePositiveSoFar = @ + 1])
       ELSE LET falsePositiveRate ==
                  Number(acc.falsePositiveSoFar + 1, negativeCount)
                truePositiveRate ==
                  Number(positiveCount - acc.truePositiveSoFar, positiveCount)
            IN rocArea_after(sortedPairs, i + 1, positiveCount, negativeCount,
                 [acc EXCEPT
                    !.falsePositiveSoFar = @ + 1,
                    !.truePositiveRate = truePositiveRate,
                    !.auc = Plus(@, Times(Minus(falsePositiveRate,
                                                acc.previousFalsePositiveRate),
                                          truePositiveRate)),
                    !.previousFalsePositiveRate = falsePositiveRate])

\* The loop over sortedPairs from index i on, and the final rectangle.
RECURSIVE rocArea(_, _, _, _, _)
rocArea(sortedPairs, i, positiveCount, negativeCount, acc) ==
  IF i > Len(sortedPairs)
  THEN Plus(acc.auc,
            Times(Minus(Int2Number(1), acc.previousFalsePositiveRate),
                  acc.truePositiveRate))
  ELSE IF sortedPairs[i].actual = 1
       THEN rocArea(sortedPairs, i + 1, positiveCount, negativeCount,
                    [acc EXCEPT !.truePositiveSoFar = @ + 1])
       ELSE LET falsePositiveRate ==
                  Number(acc.falsePositiveSoFar + 1, negativeCount)
                truePositiveRate ==
                  Number(acc.truePositiveSoFar, positiveCount)
            IN rocArea(sortedPairs, i + 1, positiveCount, negativeCount,
                 [acc EXCEPT
                    !.falsePositiveSoFar = @ + 1,
                    !.truePositiveRate = truePositiveRate,
                    !.auc = Plus(@, Times(Minus(falsePositiveRate,
                                                acc.previousFalsePositiveRate),
                                          truePositiveRate)),
                    !.previousFalsePositiveRate = falsePositiveRate])

\* auc: 0 unless both classes occur.
aucOf(sortedPairs) ==
  LET positiveCount ==
        Cardinality({i \in 1..Len(sortedPairs) : sortedPairs[i].actual = 1})
      negativeCount ==
        Cardinality({i \in 1..Len(sortedPairs) : sortedPairs[i].actual = 0})
  IN IF positiveCount > 0 /\ negativeCount > 0
     THEN rocArea(sortedPairs, 1, positiveCount, negativeCount,
                  [auc |-> Int2Number(0), truePositiveRate |-> Int2Number(0),
                   previousFalsePositiveRate |-> Int2Number(0),
                   truePositiveSoFar |-> 0, falsePositiveSoFar |-> 0])
     ELSE Int2Number(0)

logisticResult(d, regularization, threshold, binarizedY, sortedPairs) ==
  [Result("logistic-regression", d.dataPoints) EXCEPT
     !.knobs = [NoKnobs EXCEPT !.regularization = <<regularization>>,
                               !.threshold = <<threshold>>],
     !.results = [threshold |-> threshold,
                  iterations |-> logisticIterations,
                  binarizedY |-> binarizedY,
                  sortedPairs |-> sortedPairs,
                  auc |-> aucOf(sortedPairs)]]

\* x and y are mapped from data.dataPoints.  The coefficients, the
\* probabilities and what is counted against the threshold are
\* floating-point numbers that are not computed; sortedPairs carries the
\* ranks of the probabilities.
performLogisticRegression(d, parameters) ==
  logisticResult(d, OrElse(parameters.regularization, Number(1, 10)),
                 OrElse(parameters.threshold, Number(1, 2)),
                 binarizedYOf(d.dataPoints),
                 sortedPairsOf(
                   [i \in 1..Len(d.dataPoints) |->
                      [prob |-> rankOf(xNormOf(d.dataPoints))[i],
                       actual |-> binarizedYOf(d.dataPoints)[i]]]))

\* parameters?.linkFunction || 'log'
linkFunctionOf(parameters) ==
  IF parameters.linkFunction # <<>> /\ parameters.linkFunction[1] # ""
  THEN parameters.linkFunction[1] ELSE "log"

\* The links whose inverse is computed here; the inverse of 'log', and of
\* any other name, is Math.exp.
ExactLinks == {"identity", "sqrt"}

\* 'identity': Math.max(0, eta), which is NaN for NaN; 'sqrt': eta * eta.
applyInverseLink(linkFunction, eta) ==
  CASE linkFunction = "identity" ->
         IF isNaN(eta) THEN NaN
         ELSE IF eta.n < 0 THEN Int2Number(0) ELSE eta
    [] linkFunction = "sqrt" -> Times(eta, eta)

\* Number of passes of the reweighting loop.
poissonIterations == 20

\* w * z of one observation, z = eta + (y - mu) / (mu || 1e-10).  With
\* mu = 0 the quotient is y * 1e10, a finite number, and w * z is 0 * z.
weightedResponse(mu, eta, y) ==
  IF mu.n = 0 /\ mu.d # 0
  THEN Times(mu, eta)
  ELSE Times(mu, Plus(eta, DividedBy(Minus(y, mu), mu)))

\* Math.abs(denominator) > 1e-10.  A fraction of this model that is not 0
\* is at least 2^-31 in size, which is above 1e-10.
isUsable(denominator) == ~isNaN(denominator) /\ denominator.n # 0

\* eta, mu and w * z of the observations in one pass.
etaOf(beta, xNorm) ==
  [i \in 1..Len(xNorm) |-> Plus(beta.beta0, Times(beta.beta1, xNorm[i]))]

muOf(linkFunction, eta) ==
  [i \in 1..Len(eta) |-> applyInverseLink(linkFunction, eta[i])]

wzOf(mu, eta, y) ==
  [i \in 1..Len(mu) |-> weightedResponse(mu[i], eta[i], y[i])]

\* sumW, sumWZ, sumWX, sumWZX and sumWXX of one pass.
sumsOf(mu, eta, y, xNorm) ==
  [sumW |-> sum(mu),
   sumWZ |-> sum(wzOf(mu, eta, y)),
   sumWX |-> sum([i \in 1..Len(mu) |-> Times(mu[i], xNorm[i])]),
   sumWZX |-> sum([i \in 1..Len(mu) |-> Times(wzOf(mu, eta, y)[i], xNorm[i])]),
   sumWXX |-> sum([i \in 1..Len(mu) |->
                     Times(Times(mu[i], xNorm[i]), xNorm[i])])]

\* sumW * sumWXX - sumWX * sumWX
denominatorOf(sums) ==
  Minus(Times(sums.sumW, sums.sumWXX), Times(sums.sumWX, sums.sumWX))

\* The coefficients after the pass: the solution of the normal equations
\* when the denominator is usable, the coefficients before the pass when it
\* is not.
updateOf(beta, sums) ==
  IF isUsable(denominatorOf(sums))
  THEN [beta0 |-> DividedBy(Minus(Times(sums.sumWZ, sums.sumWXX),
                                  Times(sums.sumWZX, sums.sumWX)),
                            denominatorOf(sums)),
        beta1 |-> DividedBy(Minus(Times(sums.sumW, sums.sumWZX),
                                  Times(sums.sumWX, sums.sumWZ)),
                            denominatorOf(sums)),
        updates |-> beta.updates + 1]
  ELSE beta

\* One pass of the loop: the coefficients after it.
irlsPass(beta, xNorm, y, linkFunction) ==
  updateOf(beta, sumsOf(muOf(linkFunction, etaOf(beta, xNorm)),
                        etaOf(beta, xNorm), y, xNorm))

\* for (let iter = 0; iter < iterations; iter++).  The test of
\* next.updates in irlsFrom is always true: it has each pass computed
\* before the next one starts.
RECURSIVE irls(_, _, _, _, _)
RECURSIVE irlsFrom(_, _, _, _, _)
irlsFrom(next, xNorm, y, linkFunction, iter) ==
  IF next.updates >= 0 THEN irls(next, xNorm, y, linkFunction, iter)
  ELSE next

irls(beta, xNorm, y, linkFunction, iter) ==
  IF iter < poissonIterations
  THEN irlsFrom(irlsPass(beta, xNorm, y, linkFunction), xNorm, y,
                linkFunction, iter + 1)
  ELSE beta

\* The result of the fit with the given coefficients.
poissonResult(d, linkFunction, xNorm, beta) ==
  [Result("poisson-regression", d.dataPoints) EXCEPT
     !.knobs = [NoKnobs EXCEPT !.linkFunction = <<linkFunction>>],
     !.results =
        IF linkFunction \in ExactLinks
        THEN [linkFunction |-> linkFunction,
              iterations |-> poissonIterations,
              intercept |-> beta.beta0,
              slope |-> beta.beta1,
              updates |-> beta.updates,
              predictions |-> muOf(linkFunction, etaOf(beta, xNorm))]
        ELSE [linkFunction |-> linkFunction,
              iterations |-> poissonIterations]]

\* As performPoissonRegression, tagging its result 'poisson'.
performPoissonRegression_legacyTag(d, parameters) ==
  Result("poisson", d.dataPoints)

\* x and y are mapped from data.dataPoints (the values of the model are not
\* negative: Math.max(0, value) is the value).  With a link of ExactLinks
\* the coefficients and the predictions are computed; with 'log' they are
\* floating-point numbers that are not.  updates counts the passes that
\* changed the coefficients.
performPoissonRegression(d, parameters) ==
  poissonResult(d, linkFunctionOf(parameters), xNormOf(d.dataPoints),
                irls([beta0 |-> Int2Number(0), beta1 |-> Int2Number(0),
                      updates |-> 0],
                     xNormOf(d.dataPoints), valuesOf(d.dataPoints),
                     linkFunctionOf(parameters), 0))

\* denominator !== 0 ? numerator / denominator : 0, with the sums of
\* (x[j] - meanX) * (y[j] - meanY) and of (x[j] - meanX)^2.
coefficientOf(x, meanX, y, meanY) ==
  LET numerator == sum([j \in 1..Len(y) |->
                          Times(Minus(x[j], meanX), Minus(y[j], meanY))])
      denominator == sum([j \in 1..Len(y) |->
                            Times(Minus(x[j], meanX), Minus(x[j], meanX))])
  IN IF denominator.n # 0 \/ denominator.d = 0
     THEN DividedBy(numerator, denominator)
     ELSE Int2Number(0)

\* mse = sum of squared errors / n and
\* rSquared = 1 - sum of squared errors / totalSumOfSquares.
\* metrics.rmse is Math.sqrt(mse): the results carry mse.
fitOf(y, predictions) ==
  LET squaredErrors ==
        [i \in 1..Len(y) |-> Times(Minus(y[i], predictions[i]),
                                   Minus(y[i], predictions[i]))]
      totalSumOfSquares ==
        sum([i \in 1..Len(y) |-> Times(Minus(y[i], mean(y)),
                                       Minus(y[i], mean(y)))])
  IN [mse |-> DividedBy(sum(squaredErrors), Int2Number(Len(y))),
      rSquared |-> Minus(Int2Number(1),
                         DividedBy(sum(squaredErrors), totalSumOfSquares))]

\* !targetSeriesId || predictorSeriesIds.length === 0
\* As lacksSeries, asking for the target series only.
lacksSeries_targetOnly(targetSeriesId, predictorSeriesIds) ==
  ~Truthy(targetSeriesId)

lacksSeries(targetSeriesId, predictorSeriesIds) ==
  ~Truthy(targetSeriesId) \/ Len(predictorSeriesIds) = 0

\* The steps of the fit, each taking what the steps before it computed:
\* the normalised predictors, the means, the coefficients, the intercept
\* and the predictions.
normalizedPredictorsOf(c) ==
  [i \in 1..Len(c.predictorValues) |-> normalize(Numbers(c.predictorValues[i]))]

meansOf(normalizedPredictors) ==
  [i \in 1..Len(normalizedPredictors) |-> mean(normalizedPredictors[i])]

coefficientsOf(normalizedPredictors, meanXs, y, meanY) ==
  [i \in 1..Len(normalizedPredictors) |->
     coefficientOf(normalizedPredictors[i], meanXs[i], y, meanY)]

interceptOf(coefficients, meanXs, meanY) ==
  Minus(meanY, sum([i \in 1..Len(coefficients) |->
                      Times(coefficients[i], meanXs[i])]))

predictionsOf(coefficients, intercept, normalizedPredictors, n) ==
  [k \in 1..n |->
     Plus(intercept,
          sum([j \in 1..Len(coefficients) |->
                 Times(coefficients[j], normalizedPredictors[j][k])]))]

regressionResult(targetPoints, c, y, coefficients, intercept, predictions) ==
  [Result("regression", targetPoints)
     EXCEPT !.timestamps = c.timestamps,
            !.targetValues = c.targetValues,
            !.predictorValues = c.predictorValues,
            !.results = [coefficients |-> coefficients,
                         intercept |-> intercept,
                         predictions |-> predictions,
                         timestamps |-> c.timestamps,
                         rSquared |-> fitOf(y, predictions).rSquared,
                         mse |-> fitOf(y, predictions).mse]]

fitFromCoefficients(targetPoints, c, y, normalizedPredictors, meanXs, coefficients) ==
  regressionResult(targetPoints, c, y, coefficients,
                   interceptOf(coefficients, meanXs, mean(y)),
                   predictionsOf(coefficients,
                                 interceptOf(coefficients, meanXs, mean(y)),
                                 normalizedPredictors, Len(y)))

fitFromPredictors(targetPoints, c, y, normalizedPredictors) ==
  fitFromCoefficients(targetPoints, c, y, normalizedPredictors,
                      meansOf(normalizedPredictors),
                      coefficientsOf(normalizedPredictors,
                                     meansOf(normalizedPredictors), y, mean(y)))

performRegressionAnalysis(d, parameters) ==
  IF lacksSeries(parameters.targetSeries, parameters.predictorSeries)
  THEN [Throw("needsPredictor") EXCEPT !.routine = "regression"]
  ELSE IF Len(filterValidAnalysisPoints(
                d, <<parameters.targetSeries>> \o parameters.predictorSeries)) < 2
       THEN [Throw("insufficientData") EXCEPT !.routine = "regression"]
       ELSE fitFromPredictors(
              extractSeriesData(d, parameters.targetSeries),
              combineSeriesForAnalysis(d, parameters.targetSeries,
                                       parameters.predictorSeries),
              Numbers(combineSeriesForAnalysis(
                        d, parameters.targetSeries,
                        parameters.predictorSeries).targetValues),
              normalizedPredictorsOf(
                combineSeriesForAnalysis(d, parameters.targetSeries,
                                         parameters.predictorSeries)))

\* ------------------------------------------------------------------------
\* analysisUtils.ts: the dispatcher
\* ------------------------------------------------------------------------

AnalysisType ==
  {"descriptive", "regression", "classification", "forecasting", "anomaly",
   "logistic-regression", "poisson-regression"}

\* ['regression', 'logistic-regression', 'poisson-regression'].includes(type)
\* As requiresTarget, for the linear regression only.
requiresTarget_regressionOnly(type) == type = "regression"

requiresTarget(type) ==
  type \in {"regression", "logistic-regression", "poisson-regression"}

\* analysisDataPoints.length === 0
\* As noPointsFound, never true.
noPointsFound_never(analysisDataPoints) == Len(analysisDataPoints) < 0

noPointsFound(analysisDataPoints) == Len(analysisDataPoints) = 0

\* The switch over options.type.
routineResult(d, options, targetSeriesId, sortedDataPoints) ==
  CASE options.type = "descriptive" ->
         performDescriptiveAnalysis(d, sortedDataPoints, targetSeriesId)
    [] options.type = "regression" ->
         performRegressionAnalysis(d, options.parameters)
    [] options.type = "logistic-regression" ->
         performLogisticRegression(d, options.parameters)
    [] options.type = "poisson-regression" ->
         performPoissonRegression(d, options.parameters)
    [] options.type = "classification" ->
         performClassificationAnalysis(d, sortedDataPoints,
                                       options.parameters, targetSeriesId)
    [] options.type = "forecasting" ->
         performForecastingAnalysis(d, sortedDataPoints,
                                    options.parameters, targetSeriesId)
    [] options.type = "anomaly" ->
         performAnomalyDetection(d, sortedDataPoints,
                                 options.parameters, targetSeriesId)
    [] OTHER -> Throw("unsupportedType")

\* The call from the check of analysisDataPoints on.
analyzePoints(d, options, targetSeriesId, analysisDataPoints) ==
  IF Truthy(targetSeriesId) /\ noPointsFound(analysisDataPoints)
  THEN [Throw("emptySeries") EXCEPT !.extracted = TRUE]
  ELSE [routineResult(d, options, targetSeriesId,
                      sortDataPointsByTime(analysisDataPoints))
          EXCEPT !.extracted = Truthy(targetSeriesId),
                 !.working = analysisDataPoints]

\* The call from the check of the target series on.
analyzeTarget(d, options, targetSeriesId) ==
  IF requiresTarget(options.type) /\ ~Truthy(targetSeriesId)
  THEN Throw("missingTarget")
  ELSE analyzePoints(d, options, targetSeriesId,
                     IF Truthy(targetSeriesId)
                     THEN extractSeriesData(d, targetSeriesId)
                     ELSE d.dataPoints)

analyzeTimeSeries(d, options) ==
  analyzeTarget(d, options,
                IF Truthy(options.parameters.targetSeries)
                THEN options.parameters.targetSeries ELSE Null)

\* What the call leaves in the caller's arrays.  The only array of the
\* caller that a sort is started from is analysisDataPoints, which is
\* data.dataPoints itself when extractSeriesData returns it (an untagged
\* single series named as the target) and a fresh array otherwise.

\* As argumentAfterSort, the sort working on the array itself.
argumentAfterSort_inPlace(dataPoints) == sortDataPointsByTime(dataPoints)

\* [...dataPoints].sort(...): the copy is sorted, the argument stays as is.
argumentAfterSort(dataPoints) == dataPoints

\* extractSeriesData returns data.dataPoints, not a copy of it.
returnsDataPoints(d, seriesId) ==
  /\ ~(d.format = "wide"
        \/ \E i \in 1..Len(d.dataPoints) : Truthy(d.dataPoints[i].seriesId))
  /\ d.name = seriesId

\* The dataset after analyzeTimeSeries(d, options).
datasetAfterAnalyze(d, options) ==
  LET targetSeriesId == IF Truthy(options.parameters.targetSeries)
                        THEN options.parameters.targetSeries ELSE Null
  IN IF /\ Truthy(targetSeriesId)
        /\ returnsDataPoints(d, targetSeriesId)
        /\ ~noPointsFound(d.dataPoints)
     THEN [d EXCEPT !.dataPoints = argumentAfterSort(d.dataPoints)]
     ELSE d

\* ------------------------------------------------------------------------
\* The earlier analysis module: regression in time mode
\* ------------------------------------------------------------------------

\* forecastPoints: for i = 1..10, the point at lastDataPointTime + i days.
\* sortedDataPoints[length - 1].timestamp of an empty array throws a TypeError.
\* As slopeOf, without the factor n of the cross term.
slopeOf_unweighted(n, sumX, sumY, sumXY, sumXX) ==
  DividedBy(Minus(sumXY, Times(sumX, sumY)),
            Minus(Times(n, sumXX), Times(sumX, sumX)))

\* (n * sumXY - sumX * sumY) / (n * sumXX - sumX * sumX)
slopeOf(n, sumX, sumY, sumXY, sumXX) ==
  DividedBy(Minus(Times(n, sumXY), Times(sumX, sumY)),
            Minus(Times(n, sumXX), Times(sumX, sumX)))

\* x is the time of each point, normalised to (x - xMin) / xRange (0 / 0
\* for points all at one instant; the points are sorted, so xMin is the
\* first time and xMax the last); the fit is by least squares.
performRegressionAnalysis_v1(d, sortedDataPoints, parameters) ==
  IF Len(sortedDataPoints) = 0
  THEN [Throw("typeError") EXCEPT !.routine = "regression"]
  ELSE LET x == [i \in 1..Len(sortedDataPoints) |->
                   getTime(sortedDataPoints[i].timestamp)]
           y == valuesOf(sortedDataPoints)
           xMin == x[1]
           xRange == x[Len(x)] - xMin
           xNorm == [i \in 1..Len(x) |->
                       DividedBy(Int2Number(x[i] - xMin), Int2Number(xRange))]
           n == Int2Number(Len(x))
           sumX == sum(xNorm)
           sumY == sum(y)
           sumXY == sum([i \in 1..Len(x) |-> Times(xNorm[i], y[i])])
           sumXX == sum([i \in 1..Len(x) |-> Times(xNorm[i], xNorm[i])])
           slope == slopeOf(n, sumX, sumY, sumXY, sumXX)
           intercept == DividedBy(Minus(sumY, Times(slope, sumX)), n)
           predictions == [i \in 1..Len(x) |->
                             Plus(intercept, Times(slope, xNorm[i]))]
           fit == fitOf(y, predictions)
           lastDataPointTime ==
             getTime(sortedDataPoints[Len(sortedDataPoints)].timestamp)
       IN [Result("regression", sortedDataPoints) EXCEPT
             !.results = [slope |-> slope,
                          intercept |-> intercept,
                          predictions |-> predictions,
                          rSquared |-> fit.rSquared,
                          mse |-> fit.mse],
             !.forecastPoints =
                [i \in 1..ForecastCount |->
                   [timestamp |-> toISOString(lastDataPointTime + i * DayMs),
                    value |->
                      Plus(intercept,
                           Times(slope,
                                 DividedBy(Int2Number(lastDataPointTime
                                                        + i * DayMs - xMin),
                                           Int2Number(xRange))))]]]

\* analyzeTimeSeries of the earlier module with options.type = 'regression'.
analyzeTimeSeries_v1(d, options) ==
  LET sortedDataPoints == sortDataPointsByTime(d.dataPoints)
  IN performRegressionAnalysis_v1(d, sortedDataPoints, options.parameters)

\* ------------------------------------------------------------------------
\* The state machine
\* ------------------------------------------------------------------------

\* The type tags a caller may pass: the seven of AnalysisType and 'logistic',
\* a tag of the earlier AnalysisType that the dispatcher no longer knows.
RequestedTypes == AnalysisType \cup {"logistic"}

\* parameters.targetSeries: not there, null, empty or a series id.
TargetParams == {Absent, Null, ""} \cup SeriesIds

\* parameters.predictorSeries: <<>> is both the absent parameter and the
\* empty array (parameters?.predictorSeries || []).  Only the regression
\* routine reads the parameter.
PredictorParams(type) ==
  IF type = "regression" THEN {<<>>, <<"A">>, <<"D">>} ELSE {<<>>}

\* The id lists filterValidAnalysisPoints is called with.
SeriesIdLists == UNION {[1..n -> SeriesIds] : n \in 0..2}

\* options, with the numeric knobs of the parameters.
OptionsWith(type, target, predictors, knobs) ==
  [type |-> type,
   parameters |-> [targetSeries |-> target, predictorSeries |-> predictors,
                   threshold |-> knobs.threshold,
                   zScoreThreshold |-> knobs.zScoreThreshold,
                   windowSize |-> knobs.windowSize,
                   forecastHorizon |-> knobs.forecastHorizon,
                   regularization |-> knobs.regularization,
                   linkFunction |-> knobs.linkFunction]]

\* options with no numeric knob in the parameters.
Options(type, target, predictors) == OptionsWith(type, target, predictors, NoKnobs)

Idle == [call |-> NoCall, ret |-> NoOutcome]

\* The instants the clock shows, and the draws of the random source.
Instants == {2 * DayMs, 3 * DayMs}

Draws == {"id1", "id2"}

Init ==
  /\ data \in Datasets
  /\ out = Idle
  /\ now = 2 * DayMs
  /\ rnd = "id1"
  /\ descent = "positive"

\* The numeric knobs of the calls on the datasets of Datasets: a forecast
\* horizon of 1, every other knob left out.
OneStepAhead == [NoKnobs EXCEPT !.forecastHorizon = <<Int2Number(1)>>]

\* options of a call, as the call recorded them.
OptionsOf(call) ==
  OptionsWith(call.type, call.targetSeries, call.predictorSeries, call.knobs)

\* The engine is synchronous: a call is made when no outcome is pending, and
\* the caller takes the outcome before the next call.
Analyze ==
  /\ out = Idle
  /\ \E type \in RequestedTypes, target \in TargetParams :
    \E predictors \in PredictorParams(type) :
      LET call == [NoCall EXCEPT !.op = "analyze", !.type = type,
                                 !.targetSeries = target,
                                 !.predictorSeries = predictors,
                                 !.knobs = OneStepAhead]
      IN /\ out' = [call |-> call,
                    ret |-> analyzeTimeSeries(data, OptionsOf(call))]
         /\ data' = datasetAfterAnalyze(data, OptionsOf(call))
  /\ UNCHANGED <<now, rnd, descent>>

AnalyzeV1 ==
  /\ out = Idle
  /\ out' = [call |-> [NoCall EXCEPT !.op = "analyze_v1", !.type = "regression"],
             ret |-> analyzeTimeSeries_v1(data, Options("regression", Absent, <<>>))]
  /\ UNCHANGED <<data, now, rnd, descent>>

ExtractSeries ==
  /\ out = Idle
  /\ \E seriesId \in SeriesIds :
       out' = [call |-> [NoCall EXCEPT !.op = "extract", !.seriesId = seriesId],
               ret |-> [NoOutcome EXCEPT !.status = "ok",
                          !.points = extractSeriesData(data, seriesId)]]
  /\ UNCHANGED <<data, now, rnd, descent>>

FilterValid ==
  /\ out = Idle
  /\ \E seriesIds \in SeriesIdLists :
       out' = [call |-> [NoCall EXCEPT !.op = "filter", !.seriesIds = seriesIds],
               ret |-> [NoOutcome EXCEPT !.status = "ok",
                          !.timestamps = filterValidAnalysisPoints(data, seriesIds)]]
  /\ UNCHANGED <<data, now, rnd, descent>>

CombineSeries ==
  /\ out = Idle
  /\ \E target \in SeriesIds, predictors \in {<<"A">>, <<"D">>, <<"A", "D">>} :
       LET c == combineSeriesForAnalysis(data, target, predictors)
       IN out' = [call |-> [NoCall EXCEPT !.op = "combine",
                                          !.targetSeries = target,
                                          !.predictorSeries = predictors],
                  ret |-> [NoOutcome EXCEPT !.status = "ok",
                             !.timestamps = c.timestamps,
                             !.targetValues = c.targetValues,
                             !.predictorValues = c.predictorValues]]
  /\ UNCHANGED <<data, now, rnd, descent>>

\* The caller takes the outcome (a result handed on, or an error reported).
TakeOutcome ==
  /\ out # Idle
  /\ out' = Idle
  /\ UNCHANGED <<data, now, rnd, descent>>

Next ==
  \/ Analyze
  \/ AnalyzeV1
  \/ ExtractSeries
  \/ FilterValid
  \/ CombineSeries
  \/ TakeOutcome

Spec == Init /\ [][Next]_vars

\* ------------------------------------------------------------------------
\* The state machine over numeric series
\* ------------------------------------------------------------------------

Values == 0..MaxValue

\* The value sequences of the documented scenarios.
Scenarios ==
  {<<1, 2, 3, 4, 5>>, <<10, 10, 10, 10, 100>>,
   <<0, 2, 4, 6, 8, 10, 12, 14, 16, 18>>}

\* The untagged dataset named "D" of one point a day with the given values.
NumericSeries(vs) ==
  [id |-> "ds", name |-> "D", format |-> "long",
   dataPoints |-> [i \in 1..Len(vs) |->
                     DataPoint(toISOString((i - 1) * DayMs), vs[i], Absent)]]

\* The dataset of two tagged series over the same days: "D" with the given
\* values and "A" with the day offsets 0, 1, 2, ...
PairedSeries(vs) ==
  [id |-> "ds", name |-> "D", format |-> "wide",
   dataPoints |->
     [i \in 1..(2 * Len(vs)) |->
        IF i % 2 = 1
        THEN DataPoint(toISOString(((i - 1) \div 2) * DayMs),
                       vs[(i + 1) \div 2], "D")
        ELSE DataPoint(toISOString(((i - 1) \div 2) * DayMs),
                       (i - 1) \div 2, "A")]]

NumericDatasets ==
  {NumericSeries(vs) :
     vs \in UNION {[1..n -> Values] : n \in 0..MaxValues} \cup Scenarios}
  \cup {PairedSeries(vs) : vs \in Scenarios}

\* The routines that compute over the values of one series, and the
\* logistic regression for its knobs.
NumericTypes ==
  {"descriptive", "classification", "forecasting", "anomaly",
   "logistic-regression", "regression"}

\* A numeric knob of the parameters: not there, or one of 0, 1 and 2.
KnobValues == {<<>>} \cup {<<Int2Number(k)>> : k \in 0..2}

\* The forecast horizons supplied.  The default horizon of 100 is not among
\* the inputs: its hundred rolled means do not fit exact 32-bit fractions.
HorizonValues == {<<Int2Number(k)>> : k \in 1..MaxHorizon}

\* The knobs each routine reads.
KnobChoices(type) ==
  CASE type = "classification" ->
         {[NoKnobs EXCEPT !.threshold = t] : t \in KnobValues}
    [] type = "anomaly" ->
         {[NoKnobs EXCEPT !.zScoreThreshold = z] : z \in KnobValues}
    [] type = "forecasting" ->
         {[NoKnobs EXCEPT !.windowSize = w, !.forecastHorizon = h] :
            w \in KnobValues, h \in HorizonValues}
    [] type = "logistic-regression" ->
         {[NoKnobs EXCEPT !.regularization = r, !.threshold = t] :
            r \in KnobValues \ {<<Int2Number(2)>>},
            t \in KnobValues \ {<<Int2Number(2)>>}}
    [] OTHER -> {NoKnobs}

InitNumeric ==
  /\ data \in NumericDatasets
  /\ out = Idle
  /\ now = 2 * DayMs
  /\ rnd = "id1"
  /\ descent = "positive"

AnalyzeWithKnobs ==
  /\ out = Idle
  /\ \E type \in NumericTypes, target \in {Absent, "D"} :
       \E knobs \in KnobChoices(type), predictors \in PredictorParams(type) :
         LET call == [NoCall EXCEPT !.op = "analyze", !.type = type,
                                    !.targetSeries = target,
                                    !.predictorSeries = predictors,
                                    !.knobs = knobs]
         IN /\ out' = [call |-> call,
                       ret |-> analyzeTimeSeries(data, OptionsOf(call))]
            /\ data' = datasetAfterAnalyze(data, OptionsOf(call))
  /\ UNCHANGED <<now, rnd, descent>>

\* Time passes and the random source moves on while the caller holds an
\* outcome.
Elapse ==
  /\ out # Idle
  /\ now' \in {t \in Instants : t > now}
  /\ rnd' \in Draws
  /\ UNCHANGED <<data, out, descent>>

\* The caller repeats the call it holds the outcome of, with the same
\* dataset and the same options.
AnalyzeAgain ==
  /\ out.call.op = "analyze"
  /\ out' = [call |-> out.call,
             ret |-> analyzeTimeSeries(data, OptionsOf(out.call))]
  /\ data' = datasetAfterAnalyze(data, OptionsOf(out.call))
  /\ UNCHANGED <<now, rnd, descent>>

NextNumeric ==
  \/ AnalyzeWithKnobs
  \/ AnalyzeV1
  \/ Elapse
  \/ AnalyzeAgain
  \/ TakeOutcome

SpecNumeric == InitNumeric /\ [][NextNumeric]_vars

\* The classification family: a series named "D" of one point a day, each
\* with a value and with a category or none.  An imported cell can be empty:
\* the category is then the empty string.
LabelledSeries(ps) ==
  [id |-> "ds", name |-> "D", format |-> "long",
   dataPoints |-> [i \in 1..Len(ps) |->
                     [DataPoint(toISOString((i - 1) * DayMs), ps[i][1], Absent)
                        EXCEPT !.category = ps[i][2]]]]

LabelledDatasets ==
  {LabelledSeries(ps) :
     ps \in UNION {[1..n -> Values \X {Absent, "", "High Risk", "Low Risk"}] : n \in 0..MaxLabelledPoints}}

InitLabelled ==
  /\ data \in LabelledDatasets
  /\ out = Idle
  /\ now = 2 * DayMs
  /\ rnd = "id1"
  /\ descent = "positive"

Classify ==
  /\ out = Idle
  /\ \E target \in {Absent, "D"}, knobs \in KnobChoices("classification") :
       LET call == [NoCall EXCEPT !.op = "analyze", !.type = "classification",
                                  !.targetSeries = target, !.knobs = knobs]
       IN /\ out' = [call |-> call,
                     ret |-> analyzeTimeSeries(data, OptionsOf(call))]
          /\ data' = datasetAfterAnalyze(data, OptionsOf(call))
  /\ UNCHANGED <<now, rnd, descent>>

NextLabelled ==
  \/ Classify
  \/ TakeOutcome

SpecLabelled == InitLabelled /\ [][NextLabelled]_vars

\* The forecasting family: a series named "D" of up to MaxTimedPoints points,
\* in any order, a few milliseconds apart or at the same instant.
TimedSeries(ps) ==
  [id |-> "ds", name |-> "D", format |-> "long",
   dataPoints |-> [i \in 1..Len(ps) |->
                     DataPoint(toISOString(ps[i][1]), ps[i][2], Absent)]]

\* With them the values 1, 2, 3, 4, 5 of the documented trend, a millisecond
\* apart, in the order of time and in another order.
TimedDatasets ==
  {TimedSeries(ps) :
     ps \in UNION {[1..n -> {0, 1, 3} \X {0, 1, 2}] : n \in 0..MaxTimedPoints}
            \cup {<<<<0, 1>>, <<1, 2>>, <<2, 3>>, <<3, 4>>, <<4, 5>>>>,
                  <<<<3, 4>>, <<0, 1>>, <<4, 5>>, <<2, 3>>, <<1, 2>>>>}}

InitForecast ==
  /\ data \in TimedDatasets
  /\ out = Idle
  /\ now = 2 * DayMs
  /\ rnd = "id1"
  /\ descent = "positive"

Forecast ==
  /\ out = Idle
  /\ \E target \in {Absent, "D"}, knobs \in KnobChoices("forecasting") :
       LET call == [NoCall EXCEPT !.op = "analyze", !.type = "forecasting",
                                  !.targetSeries = target, !.knobs = knobs]
       IN /\ out' = [call |-> call,
                     ret |-> analyzeTimeSeries(data, OptionsOf(call))]
          /\ data' = datasetAfterAnalyze(data, OptionsOf(call))
  /\ UNCHANGED <<now, rnd, descent>>

Describe ==
  /\ out = Idle
  /\ \E target \in {Absent, "D"} :
       LET call == [NoCall EXCEPT !.op = "analyze", !.type = "descriptive",
                                  !.targetSeries = target]
       IN /\ out' = [call |-> call,
                     ret |-> analyzeTimeSeries(data, OptionsOf(call))]
          /\ data' = datasetAfterAnalyze(data, OptionsOf(call))
  /\ UNCHANGED <<now, rnd, descent>>

NextForecast ==
  \/ Forecast
  \/ Describe
  \/ TakeOutcome

SpecForecast == InitForecast /\ [][NextForecast]_vars

\* ------------------------------------------------------------------------
\* The state machine over the fitted models
\* ------------------------------------------------------------------------

\* The series the models are fitted to: points at one or the other of two
\* instants, in any order, with the values 0, 1 and 2 (the least, the
\* middle and the greatest value of a series).
FitDatasets ==
  {TimedSeries(ps) :
     ps \in UNION {[1..n -> {0, 1} \X {0, 1, 2}] : n \in 0..MaxTimedPoints}}

InitFit ==
  /\ data \in FitDatasets
  /\ out = Idle
  /\ now = 2 * DayMs
  /\ rnd = "id1"
  /\ descent \in {"negative", "zero", "positive"}

FitLogistic ==
  /\ out = Idle
  /\ \E target \in {"D"} :
       LET call == [NoCall EXCEPT !.op = "analyze",
                                  !.type = "logistic-regression",
                                  !.targetSeries = target]
       IN /\ out' = [call |-> call,
                     ret |-> analyzeTimeSeries(data, OptionsOf(call))]
          /\ data' = datasetAfterAnalyze(data, OptionsOf(call))
  /\ UNCHANGED <<now, rnd, descent>>

FitPoisson ==
  /\ out = Idle
  /\ \E target \in {"D"}, link \in {<<>>, <<"log">>, <<"identity">>, <<"sqrt">>} :
       LET call == [NoCall EXCEPT !.op = "analyze",
                                  !.type = "poisson-regression",
                                  !.targetSeries = target,
                                  !.knobs = [NoKnobs EXCEPT !.linkFunction = link]]
       IN /\ out' = [call |-> call,
                     ret |-> analyzeTimeSeries(data, OptionsOf(call))]
          /\ data' = datasetAfterAnalyze(data, OptionsOf(call))
  /\ UNCHANGED <<now, rnd, descent>>

NextFit ==
  \/ FitLogistic
  \/ FitPoisson
  \/ TakeOutcome

SpecFit == InitFit /\ [][NextFit]_vars

\* ------------------------------------------------------------------------
\* The state machine over the loops of the routines
\* ------------------------------------------------------------------------

\* A pass of a loop is a step here: the gradient descent of the logistic
\* regression, the reweighting of the Poisson regression and the rolling
\* forecast.  What a routine does before and after its loop is one step
\* each.

\* The most passes of one loop that are followed.
MaxPasses == 1000

\* Series of up to two points at one or the other of two instants.
LoopDatasets ==
  {TimedSeries(ps) :
     ps \in UNION {[1..n -> {0, 1} \X {0, 1}] : n \in 0..2}}

\* The calls of the three routines; the horizons of the forecasting calls
\* are whole, fractional (5/2) and without end (Infinity).
LoopCalls ==
  {[NoCall EXCEPT !.op = "analyze", !.type = type, !.targetSeries = target,
                  !.knobs = knobs] :
     type \in {"logistic-regression", "poisson-regression"},
     target \in {Absent, "D"},
     knobs \in {NoKnobs, [NoKnobs EXCEPT !.linkFunction = <<"identity">>]}}
  \cup
  {[NoCall EXCEPT !.op = "analyze", !.type = "forecasting",
                  !.targetSeries = target,
                  !.knobs = [NoKnobs EXCEPT !.forecastHorizon = h]] :
     target \in {Absent, "D"},
     h \in HorizonValues \cup {<<Number(5, 2)>>, <<Number(1, 0)>>}}

\* What the loop of the call's routine tests its counter against:
\* iterations, or forecastHorizon.
loopBound(call) ==
  CASE call.type = "logistic-regression" -> Int2Number(logisticIterations)
    [] call.type = "poisson-regression" -> Int2Number(poissonIterations)
    [] call.type = "forecasting" ->
         OrElse(call.knobs.forecastHorizon, Int2Number(100))

\* The test of the loop after the given number of passes: iter < iterations
\* with iter counting from 0, i <= forecastHorizon with i counting from 1.
loopContinues(call, passes) ==
  IF call.type = "forecasting"
  THEN AtMost(Int2Number(passes + 1), loopBound(call))
  ELSE LessThan(Int2Number(passes), loopBound(call))

\* The outcome of the call if it throws before its routine's loop, which
\* no check before the loop reads forecastHorizon for.
beforeLoop(d, call) ==
  analyzeTimeSeries(d, OptionsOf([call EXCEPT !.knobs.forecastHorizon =
                                                <<Int2Number(1)>>]))

InitLoops ==
  /\ data \in LoopDatasets
  /\ out = Idle
  /\ now = 2 * DayMs
  /\ rnd = "id1"
  /\ descent = "positive"

\* The call is made and runs up to its routine's loop, or throws.
EnterLoop ==
  /\ out = Idle
  /\ \E call \in LoopCalls :
       out' = [call |-> call,
               ret |-> IF beforeLoop(data, call).status = "error"
                       THEN beforeLoop(data, call)
                       ELSE [NoOutcome EXCEPT !.status = "running",
                                              !.routine = call.type,
                                              !.results = [passes |-> 0]]]
  /\ UNCHANGED <<data, now, rnd, descent>>

\* One pass of the loop.
PassLoop ==
  /\ out.ret.status = "running"
  /\ out.ret.results.passes < MaxPasses
  /\ loopContinues(out.call, out.ret.results.passes)
  /\ out' = [out EXCEPT !.ret.results.passes = @ + 1]
  /\ UNCHANGED <<data, now, rnd, descent>>

\* The test of the loop fails and the routine returns its result.
LeaveLoop ==
  /\ out.ret.status = "running"
  /\ ~loopContinues(out.call, out.ret.results.passes)
  /\ out' = [out EXCEPT !.ret = analyzeTimeSeries(data, OptionsOf(out.call))]
  /\ data' = datasetAfterAnalyze(data, OptionsOf(out.call))
  /\ UNCHANGED <<now, rnd, descent>>

\* The caller has the outcome once the call has ended.
TakeLoopOutcome ==
  /\ out.ret.status # "running"
  /\ TakeOutcome

NextLoops ==
  \/ EnterLoop
  \/ PassLoop
  \/ LeaveLoop
  \/ TakeLoopOutcome

SpecLoops == InitLoops /\ [][NextLoops]_vars

\* ------------------------------------------------------------------------
\* Properties
\* ------------------------------------------------------------------------

\* The outcome is that of a call of the dispatcher.
Analyzed == out.call.op = "analyze"

\* C1: analyze of type regression, logistic-regression or poisson-regression
\* with no target series in the parameters (absent, null or empty) fails with
\* the missing-target error, before any series is extracted and before any
\* routine runs.
C1_MissingTargetFails ==
  ( /\ Analyzed
    /\ out.call.type \in {"regression", "logistic-regression", "poisson-regression"}
    /\ out.call.targetSeries \in {Absent, Null, ""} )
  => /\ out.ret.status = "error"
     /\ out.ret.error = "missingTarget"
     /\ ~out.ret.extracted
     /\ out.ret.routine = "none"

C1_Witness ==
  /\ Analyzed
  /\ out.call.type = "poisson-regression"
  /\ out.call.targetSeries = ""
  /\ out.ret.error = "missingTarget"
  /\ Len(data.dataPoints) >= 2

\* C2: for every analysis type, when a target series is named and
\* extractSeriesData returns no points for it, analyze fails with the
\* empty-series error and no routine runs; when no target series is named
\* (and the type does not require one), the working sequence is all of the
\* dataset's points.
C2_WorkingSequence ==
  Analyzed =>
    /\ ( /\ Truthy(out.call.targetSeries)
         /\ extractSeriesData(data, out.call.targetSeries) = <<>> )
       => /\ out.ret.status = "error"
          /\ out.ret.error = "emptySeries"
          /\ out.ret.routine = "none"
    /\ (~Truthy(out.call.targetSeries) /\ out.ret.error # "missingTarget")
       => out.ret.working = data.dataPoints

C2_Witness ==
  /\ Analyzed
  /\ out.call.type = "anomaly"
  /\ out.call.targetSeries = "A"
  /\ Len(data.dataPoints) >= 2
  /\ out.ret.error = "emptySeries"

\* C3: once the target-series validation has passed, analyze fails with the
\* unsupported-type error iff options.type is none of the seven tags, and a
\* result returned for one of the seven tags carries the requested tag.
C3_Dispatch ==
  (Analyzed /\ out.ret.error \notin {"missingTarget", "emptySeries"})
  => /\ (out.ret.error = "unsupportedType") <=> (out.call.type \notin AnalysisType)
     /\ out.ret.status = "ok" => out.ret.resultType = out.call.type

C3_Witness ==
  /\ Analyzed
  /\ out.call.type = "poisson-regression"
  /\ out.ret.status = "ok"
  /\ out.ret.resultType = "poisson-regression"

IsSortedByTime(points) ==
  \A i \in 1..(Len(points) - 1) :
    getTime(points[i].timestamp) <= getTime(points[i + 1].timestamp)

\* C4: for every analysis type and every order of dataset.dataPoints, the
\* points the dispatched routine computes over are sorted ascending by
\* timestamp.
C4_RoutineInputSorted ==
  (Analyzed /\ out.ret.status = "ok") => IsSortedByTime(out.ret.input)

\* The points of a sequence, as a set (the points of a dataset differ).
PointSet(points) == {points[i] : i \in 1..Len(points)}

\* C5: when a target series is named, the routine computes only over the
\* points of that series: its per-point output has exactly one entry per
\* point of the target series and none for other points.
C5_OnlyTargetSeries ==
  (Analyzed /\ out.ret.status = "ok" /\ Truthy(out.call.targetSeries))
  => LET targetPoints == extractSeriesData(data, out.call.targetSeries)
     IN /\ Len(out.ret.input) = Len(targetPoints)
        /\ PointSet(out.ret.input) = PointSet(targetPoints)

\* The dataset is flagged wide or some point carries a (non-empty) seriesId.
IsTagged(d) ==
  d.format = "wide" \/ \E p \in PointSet(d.dataPoints) : p.seriesId # Absent

SharedTimestamps(d, ids) ==
  {t \in Timestamps :
     \A j \in 1..Len(ids) :
       \E p \in PointSet(extractSeriesData(d, ids[j])) : p.timestamp = t}

\* C7: filterValidAnalysisPoints returns exactly the timestamps at which every
\* requested series has at least one point, also when a series has several
\* points at one timestamp or points of a tagged dataset carry no seriesId
\* (stated for lists of one or more distinct series ids).
C7_FilterValid ==
  ( /\ out.call.op = "filter"
    /\ Len(out.call.seriesIds) >= 1
    /\ \A i, j \in 1..Len(out.call.seriesIds) :
         out.call.seriesIds[i] = out.call.seriesIds[j] => i = j )
  => {out.ret.timestamps[k] : k \in 1..Len(out.ret.timestamps)}
       = SharedTimestamps(data, out.call.seriesIds)

\* C8: combineSeriesForAnalysis returns one timestamp and one target value
\* per point of the target series, and for each predictor a vector of that
\* length whose k-th entry is the value of the predictor's (first) point with
\* the timestamp string timestamps[k], or 0 when it has none.
C8_CombineSeries ==
  out.call.op = "combine" =>
    LET targetPoints == extractSeriesData(data, out.call.targetSeries)
        n == Len(targetPoints)
        predictors == out.call.predictorSeries
    IN /\ Len(out.ret.timestamps) = n
       /\ Len(out.ret.targetValues) = n
       /\ \A k \in 1..n :
            /\ out.ret.timestamps[k] = targetPoints[k].timestamp
            /\ out.ret.targetValues[k] = targetPoints[k].value
       /\ Len(out.ret.predictorValues) = Len(predictors)
       /\ \A j \in 1..Len(predictors) :
            LET predictorPoints == extractSeriesData(data, predictors[j])
            IN /\ Len(out.ret.predictorValues[j]) = n
               /\ \A k \in 1..n :
                    LET at == {i \in 1..Len(predictorPoints) :
                                 predictorPoints[i].timestamp = out.ret.timestamps[k]}
                    IN out.ret.predictorValues[j][k] =
                         IF at = {} THEN 0
                         ELSE predictorPoints[CHOOSE i \in at : \A h \in at : i <= h].value

\* A predictor with a point at one reference timestamp and, at another, only
\* a point of the same instant written differently.
C8_Witness ==
  /\ out.call.op = "combine"
  /\ out.call.targetSeries = "A"
  /\ out.call.predictorSeries = <<"D">>
  /\ Len(out.ret.timestamps) = 2
  /\ out.ret.predictorValues[1][1] # 0
  /\ out.ret.predictorValues[1][2] = 0
  /\ \E p \in PointSet(extractSeriesData(data, "D")) :
       /\ getTime(p.timestamp) = getTime(out.ret.timestamps[2])
       /\ p.timestamp # out.ret.timestamps[2]

\* C9: regression (given a target series with points and at least one
\* predictor) fails with the insufficient-data error whenever fewer than 2
\* timestamps are shared by the target and all predictor series, and a
\* regression that returns a result was fitted on at least 2 such timestamps.
C9_RegressionNeedsSharedTimestamps ==
  ( /\ Analyzed
    /\ out.call.type = "regression"
    /\ Truthy(out.call.targetSeries)
    /\ extractSeriesData(data, out.call.targetSeries) # <<>>
    /\ out.call.predictorSeries # <<>> )
  => LET shared == SharedTimestamps(data, <<out.call.targetSeries>>
                                            \o out.call.predictorSeries)
     IN /\ Cardinality(shared) < 2
             => (out.ret.status = "error" /\ out.ret.error = "insufficientData")
        /\ out.ret.status = "ok" => Cardinality(shared) >= 2

\* The latest instant of a non-empty sequence of points.
LastTime(points) ==
  CHOOSE t \in {getTime(p.timestamp) : p \in PointSet(points)} :
    \A p \in PointSet(points) : getTime(p.timestamp) <= t

\* Regression is asked for a target series of at least 2 points and no
\* predictor series.
TimeModeRequest ==
  /\ Analyzed
  /\ out.call.type = "regression"
  /\ Truthy(out.call.targetSeries)
  /\ Len(extractSeriesData(data, out.call.targetSeries)) >= 2
  /\ out.call.predictorSeries = <<>>

\* C10 as stated: regression with a target series of at least 2 points and no
\* predictor series succeeds in time mode with exactly 10 forecast points,
\* the i-th at the last observed timestamp plus i days.
C10_TimeModeSucceeds ==
  TimeModeRequest
  => /\ out.ret.status = "ok"
     /\ Len(out.ret.forecastPoints) = 10
     /\ \A i \in 1..Len(out.ret.forecastPoints) :
          out.ret.forecastPoints[i].timestamp =
            toISOString(LastTime(extractSeriesData(data, out.call.targetSeries))
                        + i * DayMs)

\* C10 as amended: the dispatcher's regression with a target series of at
\* least 2 points and no predictor series fails with the error asking for a
\* predictor and returns no forecast; the time-mode regression of the earlier
\* module, which takes no series parameters, returns for every non-empty
\* dataset exactly 10 forecast points, the i-th at the last observed
\* timestamp of the dataset plus i days.
C10_TimeModeOnlyInEarlierModule ==
  /\ TimeModeRequest
     => /\ out.ret.status = "error"
        /\ out.ret.error = "needsPredictor"
        /\ out.ret.forecastPoints = <<>>
  /\ (out.call.op = "analyze_v1" /\ data.dataPoints # <<>>)
     => /\ out.ret.status = "ok"
        /\ Len(out.ret.forecastPoints) = 10
        /\ \A i \in 1..Len(out.ret.forecastPoints) :
             out.ret.forecastPoints[i].timestamp =
               toISOString(LastTime(data.dataPoints) + i * DayMs)

C10_Witness ==
  /\ TimeModeRequest
  /\ out.ret.error = "needsPredictor"
  /\ Len(data.dataPoints) = 3

\* ------------------------------------------------------------------------
\* Properties of the numeric results
\* ------------------------------------------------------------------------

\* The outcome is a descriptive result.
Described ==
  Analyzed /\ out.ret.status = "ok" /\ out.ret.resultType = "descriptive"

\* The values the routine computed over, as integers.
InputValues == [i \in 1..Len(out.ret.input) |-> out.ret.input[i].value]

KthSmallest(vs, k) ==
  CHOOSE x \in {vs[i] : i \in 1..Len(vs)} :
    /\ Cardinality({i \in 1..Len(vs) : vs[i] < x}) < k
    /\ Cardinality({i \in 1..Len(vs) : vs[i] <= x}) >= k

RECURSIVE Total(_)
Total(vs) == IF vs = <<>> THEN 0 ELSE Head(vs) + Total(Tail(vs))

Squares(vs) == [i \in 1..Len(vs) |-> vs[i] * vs[i]]

\* C12: the descriptive result equals the reference computation: count = N,
\* mean = sum / N, the population variance (mean of squares minus square of
\* mean), the median (middle value, or the average of the two middle values
\* of an even count), Q1 and Q3 at indices floor(N * 0.25) and
\* floor(N * 0.75) of the values in ascending order, IQR = Q3 - Q1; on
\* [1, 2, 3, 4, 5]: mean 3, variance 2, median 3, min 1, max 5.
C12_DescriptiveReference ==
  Described =>
    LET r == out.ret.results
        vs == InputValues
        N == Len(vs)
    IN /\ r.count = N
       /\ r.mean = Number(Total(vs), N)
       /\ r.variance = Number(N * Total(Squares(vs)) - Total(vs) * Total(vs),
                              N * N)
       /\ r.min = Int2Number(KthSmallest(vs, 1))
       /\ r.max = Int2Number(KthSmallest(vs, N))
       /\ r.median = IF N % 2 = 1
                     THEN Int2Number(KthSmallest(vs, (N + 1) \div 2))
                     ELSE Number(KthSmallest(vs, N \div 2)
                                   + KthSmallest(vs, (N \div 2) + 1), 2)
       /\ r.q1 = Int2Number(KthSmallest(vs, (N \div 4) + 1))
       /\ r.q3 = Int2Number(KthSmallest(vs, ((3 * N) \div 4) + 1))
       /\ r.iqr = Number(KthSmallest(vs, ((3 * N) \div 4) + 1)
                           - KthSmallest(vs, (N \div 4) + 1), 1)
       /\ (vs = <<1, 2, 3, 4, 5>> =>
             /\ r.mean = Int2Number(3)
             /\ r.variance = Int2Number(2)
             /\ r.median = Int2Number(3)
             /\ r.min = Int2Number(1)
             /\ r.max = Int2Number(5))

C12_Witness ==
  /\ Described
  /\ InputValues = <<1, 2, 3, 4, 5>>
  /\ out.ret.results.variance = Int2Number(2)

\* The outcome is a classification result.
Classified ==
  Analyzed /\ out.ret.status = "ok" /\ out.ret.resultType = "classification"

\* C14: in a classification result every point's predictedClass is
\* 'High Risk' if and only if its value is >= results.threshold, and
\* 'Low Risk' otherwise; a value equal to the threshold is 'High Risk'.
C14_ClassificationBoundary ==
  Classified =>
    LET r == out.ret.results
    IN \A i \in 1..Len(r.classifications) :
         LET c == r.classifications[i]
         IN /\ c.predictedClass \in {"High Risk", "Low Risk"}
            /\ c.predictedClass = "High Risk"
                 <=> c.actualValue * r.threshold.d >= r.threshold.n
            /\ c.actualValue = InputValues[i]

C14_Witness ==
  /\ Classified
  /\ LET r == out.ret.results
     IN /\ \E i \in 1..Len(r.classifications) :
             /\ Int2Number(r.classifications[i].actualValue) = r.threshold
             /\ r.classifications[i].predictedClass = "High Risk"
        /\ \E i \in 1..Len(r.classifications) :
             r.classifications[i].predictedClass = "Low Risk"

\* The knob a routine used is the one supplied, or the fallback when none
\* was supplied.
UsesSupplied(used, supplied, fallback) ==
  used = IF supplied # <<>> THEN supplied ELSE <<fallback>>

\* The same for supplied values other than 0 only.
UsesSuppliedNonZero(used, supplied, fallback) ==
  (supplied = <<>> \/ supplied[1].n # 0) => UsesSupplied(used, supplied, fallback)

\* C15: each routine's numeric knob (classification threshold,
\* zScoreThreshold, windowSize, forecastHorizon, logistic regularization and
\* threshold) is exactly the value supplied in the parameters, the value 0
\* included; the default (mean of the values, 2, 3, 100, 0.1, 0.5) is used
\* only when the parameter is absent.
C15_KnobsAsSupplied ==
  (Analyzed /\ out.ret.status = "ok") =>
    LET used == out.ret.knobs
        supplied == out.call.knobs
    IN CASE out.ret.resultType = "classification" ->
              UsesSupplied(used.threshold, supplied.threshold,
                           Number(Total(InputValues), Len(InputValues)))
         [] out.ret.resultType = "anomaly" ->
              UsesSupplied(used.zScoreThreshold, supplied.zScoreThreshold,
                           Int2Number(2))
         [] out.ret.resultType = "forecasting" ->
              /\ UsesSupplied(used.windowSize, supplied.windowSize, Int2Number(3))
              /\ UsesSupplied(used.forecastHorizon, supplied.forecastHorizon,
                              Int2Number(100))
         [] out.ret.resultType = "logistic-regression" ->
              /\ UsesSupplied(used.regularization, supplied.regularization,
                              Number(1, 10))
              /\ UsesSupplied(used.threshold, supplied.threshold, Number(1, 2))
         [] OTHER -> TRUE

\* The same for every knob supplied as a number other than 0.
C15_NonZeroKnobsAsSupplied ==
  (Analyzed /\ out.ret.status = "ok") =>
    LET used == out.ret.knobs
        supplied == out.call.knobs
    IN CASE out.ret.resultType = "classification" ->
              UsesSuppliedNonZero(used.threshold, supplied.threshold,
                                  Number(Total(InputValues), Len(InputValues)))
         [] out.ret.resultType = "anomaly" ->
              UsesSuppliedNonZero(used.zScoreThreshold, supplied.zScoreThreshold,
                                  Int2Number(2))
         [] out.ret.resultType = "forecasting" ->
              /\ UsesSuppliedNonZero(used.windowSize, supplied.windowSize,
                                     Int2Number(3))
              /\ UsesSuppliedNonZero(used.forecastHorizon,
                                     supplied.forecastHorizon, Int2Number(100))
         [] out.ret.resultType = "logistic-regression" ->
              /\ UsesSuppliedNonZero(used.regularization, supplied.regularization,
                                     Number(1, 10))
              /\ UsesSuppliedNonZero(used.threshold, supplied.threshold,
                                     Number(1, 2))
         [] OTHER -> TRUE

\* C16: forecasting on a working sequence of fewer than 2 points (a single
\* point or none) fails with the insufficient-data error and returns no
\* result, for every windowSize and forecastHorizon.  (With a target series
\* named and no point of it the dispatcher has no working sequence: it fails
\* before, with the empty-series error.)
C16_ForecastNeedsTwoPoints ==
  ( /\ Analyzed
    /\ out.call.type = "forecasting"
    /\ out.ret.error # "emptySeries"
    /\ Len(out.ret.working) < 2 )
  => /\ out.ret.status = "error"
     /\ out.ret.error = "insufficientData"
     /\ out.ret.routine = "forecasting"
     /\ out.ret.resultType = "none"
     /\ out.ret.results = <<>>
     /\ out.ret.id = Absent

C16_Witness ==
  /\ Analyzed
  /\ out.call.type = "forecasting"
  /\ Len(out.ret.working) = 1
  /\ out.call.knobs.windowSize = <<Int2Number(1)>>
  /\ out.call.knobs.forecastHorizon = <<Int2Number(2)>>
  /\ out.ret.error = "insufficientData"

\* The outcome is an anomaly-detection result.
Screened ==
  Analyzed /\ out.ret.status = "ok" /\ out.ret.resultType = "anomaly"

\* N * N times the population variance of the integers vs.
ScaledVariance(vs) == Len(vs) * Total(Squares(vs)) - Total(vs) * Total(vs)

\* The square of N times the deviation of vs[i] from the mean.
ScaledSquaredDeviation(vs, i) ==
  (Len(vs) * vs[i] - Total(vs)) * (Len(vs) * vs[i] - Total(vs))

\* |z-score of vs[i]| compared with the threshold k >= 0, in integers:
\* z * z = ScaledSquaredDeviation / ScaledVariance.
ZScoreAbove(vs, i, k) ==
  /\ ScaledVariance(vs) > 0
  /\ ScaledSquaredDeviation(vs, i) * k.d * k.d > k.n * k.n * ScaledVariance(vs)

ZScoreEquals(vs, i, k) ==
  /\ ScaledVariance(vs) > 0
  /\ ScaledSquaredDeviation(vs, i) * k.d * k.d = k.n * k.n * ScaledVariance(vs)

\* C17: a point of an anomaly-detection result is flagged (isAnomaly) if and
\* only if the absolute value of its z-score is strictly greater than
\* results.zScoreThreshold; a point whose |z-score| equals the threshold is
\* not flagged.
C17_AnomalyBoundary ==
  Screened =>
    LET r == out.ret.results
    IN \A i \in 1..Len(r.anomalies) :
         /\ r.anomalies[i].value = InputValues[i]
         /\ r.anomalies[i].isAnomaly
              <=> ZScoreAbove(InputValues, i, r.zScoreThreshold)
         /\ ZScoreEquals(InputValues, i, r.zScoreThreshold)
              => ~r.anomalies[i].isAnomaly

C17_Witness ==
  /\ Screened
  /\ LET r == out.ret.results
     IN /\ \E i \in 1..Len(r.anomalies) :
             /\ ZScoreEquals(InputValues, i, r.zScoreThreshold)
             /\ ~r.anomalies[i].isAnomaly
        /\ Len(r.anomalies) >= 3

\* C18: anomaly detection on the values [10, 10, 10, 10, 100] with
\* zScoreThreshold 2 flags exactly one anomaly, the value 100
\* (anomalyCount = 1), with the population mean and standard deviation.
C18_ScenarioOneAnomaly ==
  ( /\ Screened
    /\ InputValues = <<10, 10, 10, 10, 100>>
    /\ out.call.knobs.zScoreThreshold = <<Int2Number(2)>> )
  => LET r == out.ret.results
     IN /\ r.anomalyCount = 1
        /\ r.anomalies[5].isAnomaly
        /\ \A i \in 1..4 : ~r.anomalies[i].isAnomaly

\* C18 as the code has it: on [10, 10, 10, 10, 100] with zScoreThreshold 2
\* the population mean is 28 and the population variance 1296 (standard
\* deviation 36), the z-score of 100 is exactly 2, which is not strictly
\* greater than the threshold, and no point is flagged (anomalyCount = 0).
C18_ScenarioNoAnomaly ==
  ( /\ Screened
    /\ InputValues = <<10, 10, 10, 10, 100>>
    /\ out.call.knobs.zScoreThreshold = <<Int2Number(2)>> )
  => LET r == out.ret.results
     IN /\ r.mean = Int2Number(28)
        /\ r.variance = Int2Number(36 * 36)
        /\ r.zScoreThreshold = Int2Number(2)
        /\ ZScoreEquals(InputValues, 5, r.zScoreThreshold)
        /\ r.anomalyCount = 0
        /\ \A i \in 1..5 : ~r.anomalies[i].isAnomaly

C18_Witness ==
  /\ Screened
  /\ InputValues = <<10, 10, 10, 10, 100>>
  /\ out.call.knobs.zScoreThreshold = <<Int2Number(2)>>
  /\ out.ret.results.anomalyCount = 0

\* ------------------------------------------------------------------------
\* Properties of the order of the points
\* ------------------------------------------------------------------------

\* The dataset d with its points in the order f[1], f[2], ...
Reordered(d, f) ==
  [d EXCEPT !.dataPoints = [i \in 1..Len(d.dataPoints) |-> d.dataPoints[f[i]]]]

Orders(n) == {f \in [1..n -> 1..n] : \A i, j \in 1..n : i # j => f[i] # f[j]}

\* What a caller sees of an outcome beside id and createdAt: the error or
\* the results (those of a regression include its timestamps).
Reported(ret) ==
  [status |-> ret.status, error |-> ret.error, resultType |-> ret.resultType,
   results |-> ret.results, timestamps |-> ret.timestamps]

\* No two points of the dispatcher's working sequence are at one instant.
DistinctInstants ==
  \A i, j \in 1..Len(out.ret.working) :
    i # j => getTime(out.ret.working[i].timestamp)
               # getTime(out.ret.working[j].timestamp)

\* C13: for descriptive and regression, analyze on a dataset and on the same
\* dataset with its points in any other order yields identical results and
\* metrics (here on datasets whose working points are at distinct instants,
\* where sorting by time leaves one order only).
C13_OrderIndependent ==
  ( /\ Analyzed
    /\ out.call.type \in {"descriptive", "regression"}
    /\ DistinctInstants )
  => \A f \in Orders(Len(data.dataPoints)) :
       Reported(analyzeTimeSeries(Reordered(data, f), OptionsOf(out.call)))
         = Reported(out.ret)

\* The same for descriptive alone.
C13_DescriptiveOrderIndependent ==
  ( /\ Analyzed
    /\ out.call.type = "descriptive"
    /\ DistinctInstants )
  => \A f \in Orders(Len(data.dataPoints)) :
       Reported(analyzeTimeSeries(Reordered(data, f), OptionsOf(out.call)))
         = Reported(out.ret)

\* ------------------------------------------------------------------------
\* Properties of repeated calls and of the arguments
\* ------------------------------------------------------------------------

\* A step in which analyze is called again on the same dataset with the
\* same options as the call whose outcome the caller holds.
RepeatedCall ==
  /\ Analyzed
  /\ out'.call = out.call
  /\ data' = data
  /\ UNCHANGED <<now, rnd, descent>>

\* An outcome without its id and createdAt.
Unstamped(ret) ==
  [ret EXCEPT !.id = Absent, !.createdAt = Timestamp("none", 0)]

LinearSeries ==
  LET points == extractSeriesData(data, "D")
  IN /\ Len(points) = 10
     /\ \A i \in 1..10 :
          /\ getTime(points[i].timestamp) = (i - 1) * DayMs
          /\ points[i].value = 2 * (i - 1)

\* The outcome is a fit with zero residuals.
ExactFit ==
  /\ out.ret.status = "ok"
  /\ out.ret.resultType = "regression"
  /\ out.ret.results.rSquared = Int2Number(1)
  /\ out.ret.results.mse = Int2Number(0)
  /\ \A i \in 1..Len(out.ret.results.predictions) :
       out.ret.results.predictions[i] = Int2Number(out.ret.input[i].value)

Forecasted ==
  Analyzed /\ out.ret.status = "ok" /\ out.ret.resultType = "forecasting"

\* Sum over count of the integers vs.
MeanOf(vs) == DividedBy(Int2Number(Total(vs)), Int2Number(Len(vs)))

\* C22: in a forecasting result over N >= 2 points the i-th historical entry
\* has actual = the i-th observed value and predicted = that value when
\* i < windowSize - 1 (i counted from 0), otherwise the mean of the
\* windowSize observed values at indices i - windowSize + 1 .. i.
C22_HistoricalEntries ==
  Forecasted =>
    LET r == out.ret.results
        w == r.windowSize.n
        N == Len(InputValues)
    IN /\ N >= 2
       /\ Len(r.movingAverages) >= N
       /\ \A i \in 0..(N - 1) :
            LET entry == r.movingAverages[i + 1]
            IN /\ entry.actual = <<Int2Number(InputValues[i + 1])>>
               /\ entry.timestamp = out.ret.input[i + 1].timestamp
               /\ entry.predicted =
                    IF i < w - 1 THEN Int2Number(InputValues[i + 1])
                    ELSE MeanOf(SubSeq(InputValues, i - w + 2, i + 1))

C22_Witness ==
  /\ Forecasted
  /\ out.ret.results.windowSize = Int2Number(2)
  /\ Len(InputValues) = 3
  /\ out.ret.results.movingAverages[1].predicted = Int2Number(0)
  /\ out.ret.results.movingAverages[2].predicted = Number(1, 2)
  /\ out.ret.results.movingAverages[3].predicted = Number(3, 2)

\* The last k of the numbers xs, all of them when there are fewer.
LastOf(xs, k) ==
  IF k >= Len(xs) THEN xs ELSE SubSeq(xs, Len(xs) - k + 1, Len(xs))

\* The future entries of a forecasting result.
FutureEntries ==
  SubSeq(out.ret.results.movingAverages, Len(InputValues) + 1,
         Len(out.ret.results.movingAverages))

\* The rolling window the k-th forecast is made from: the last windowSize
\* values of the observed values followed by the forecasts 1 .. k - 1.
RollingWindow(k) ==
  LastOf(Numbers(InputValues)
           \o [j \in 1..(k - 1) |-> FutureEntries[j].predicted],
         out.ret.results.windowSize.n)

\* C23: for every series of N >= 2 points and every windowSize >= 1 the k-th
\* forecast equals the arithmetic mean of the rolling window before it, and
\* lies between the minimum and the maximum of that window.
C23_ForecastIsWindowMean ==
  Forecasted =>
    \A k \in 1..Len(FutureEntries) :
      LET window == RollingWindow(k)
          forecast == FutureEntries[k].predicted
      IN /\ forecast = mean(window)
         /\ AtMost(forecast, maxOf(window))
         /\ AtMost(minOf(window), forecast)

\* The same holds of every forecast whose rolling window is full, which is
\* every forecast of a series of at least windowSize points.
C23_ForecastIsFullWindowMean ==
  (Forecasted /\ Len(InputValues) >= out.ret.results.windowSize.n) =>
    \A k \in 1..Len(FutureEntries) :
      LET window == RollingWindow(k)
          forecast == FutureEntries[k].predicted
      IN /\ Len(window) = out.ret.results.windowSize.n
         /\ forecast = mean(window)
         /\ AtMost(forecast, maxOf(window))
         /\ AtMost(minOf(window), forecast)

\* The gaps between consecutive observed points that are positive.
PositiveGaps ==
  LET t(i) == getTime(out.ret.input[i].timestamp)
  IN SelectSeq([i \in 1..(Len(out.ret.input) - 1) |-> t(i + 1) - t(i)],
               LAMBDA g : g > 0)

\* D: the mean of the positive gaps, or one day.
MeanGap == IF PositiveGaps = <<>> THEN Int2Number(DayMs) ELSE MeanOf(PositiveGaps)

\* The time of the last observed point.
LastObserved == getTime(out.ret.input[Len(out.ret.input)].timestamp)

\* The count, the shape and the order of the future entries: exactly
\* forecastHorizon of them, none with an actual value, returned as
\* results.forecast, strictly increasing in time and after the last
\* observed point.
HorizonEntries ==
  LET r == out.ret.results
  IN /\ Len(FutureEntries) = r.forecastHorizon.n
     /\ Len(r.movingAverages) = Len(InputValues) + r.forecastHorizon.n
     /\ r.forecast = FutureEntries
     /\ \A i \in 1..Len(FutureEntries) :
          /\ FutureEntries[i].actual = <<>>
          /\ getTime(FutureEntries[i].timestamp) > LastObserved
          /\ i > 1 => getTime(FutureEntries[i].timestamp)
                         > getTime(FutureEntries[i - 1].timestamp)

C24_WitnessOneDay ==
  /\ Forecasted
  /\ PositiveGaps = <<>>
  /\ Len(FutureEntries) = 2
  /\ getTime(FutureEntries[2].timestamp) = LastObserved + 2 * DayMs

\* The number of points of a classification result that are predicted
\* 'High Risk' or not (p) and are 'High Risk' by category or not (a).
Confusion(p, a) ==
  Cardinality({i \in 1..Len(out.ret.input) :
                 /\ (out.ret.results.classifications[i].predictedClass
                       = "High Risk") = p
                 /\ (out.ret.input[i].category = "High Risk") = a})

\* A number within [0, 1].
IsRate(x) == AtMost(Int2Number(0), x) /\ AtMost(x, Int2Number(1))

\* The metrics are those of the confusion counts: accuracy (TP + TN) / N;
\* precision, recall and F1 the usual quotients, 0 when their denominator
\* is 0; all within [0, 1].
MetricsOfConfusion ==
  LET m == out.ret.results.metrics
      TP == Confusion(TRUE, TRUE)
      FP == Confusion(TRUE, FALSE)
      TN == Confusion(FALSE, FALSE)
      FN == Confusion(FALSE, TRUE)
      N == Len(out.ret.input)
  IN /\ TP + FP + TN + FN = N
     /\ m.accuracy = DividedBy(Int2Number(TP + TN), Int2Number(N))
     /\ m.precision = IF TP + FP = 0 THEN Int2Number(0) ELSE Number(TP, TP + FP)
     /\ m.recall = IF TP + FN = 0 THEN Int2Number(0) ELSE Number(TP, TP + FN)
     /\ m.f1Score = IF TP = 0 THEN Int2Number(0)
                    ELSE Number(2 * TP, 2 * TP + FP + FN)
     /\ IsRate(m.accuracy) /\ IsRate(m.precision)
     /\ IsRate(m.recall) /\ IsRate(m.f1Score)

NoMetrics ==
  out.ret.results.metrics
    = [accuracy |-> Int2Number(0), precision |-> Int2Number(0),
       recall |-> Int2Number(0), f1Score |-> Int2Number(0)]

\* C25: in a classification result, when at least one point carries a
\* category, the confusion counts against category = 'High Risk' partition
\* the points (a point without category counts as not High Risk),
\* accuracy = (TP + TN) / N, precision, recall and F1 are 0 when their
\* denominator is 0 and all four lie in [0, 1]; when no point carries a
\* category all four are 0.
C25_ClassificationMetrics ==
  Classified =>
    IF \E i \in 1..Len(out.ret.input) : out.ret.input[i].category # Absent
    THEN MetricsOfConfusion
    ELSE NoMetrics

\* C25, amended: as C25, a point carrying a category when its category is a
\* non-empty string.
C25_MetricsOfNonEmptyCategories ==
  Classified =>
    IF \E i \in 1..Len(out.ret.input) :
         out.ret.input[i].category \notin {Absent, ""}
    THEN MetricsOfConfusion
    ELSE NoMetrics

C25_Witness ==
  /\ Classified
  /\ Confusion(TRUE, TRUE) = 1
  /\ Confusion(TRUE, FALSE) = 1
  /\ Confusion(FALSE, TRUE) = 1
  /\ out.ret.results.metrics.accuracy = Number(1, 3)
  /\ out.ret.results.metrics.precision = Number(1, 2)
  /\ out.ret.results.metrics.f1Score = Number(1, 2)
  /\ \E i \in 1..3 : out.ret.input[i].category = Absent

\* Both zero cases of C25 happen: no category at all, and a zero
\* denominator.
C25_WitnessZero ==
  /\ Classified
  /\ Len(out.ret.input) = 2
  /\ out.ret.input[1].category = "Low Risk"
  /\ Confusion(TRUE, FALSE) = 2
  /\ out.ret.results.metrics.precision = Int2Number(0)
  /\ out.ret.results.metrics.recall = Int2Number(0)

\* The percentage change from the value first to the value last.
PercentChange(first, last) ==
  Times(DividedBy(Minus(Int2Number(last), Int2Number(first)), Int2Number(first)),
        Int2Number(100))

\* The points of the caller's dataset at its earliest and at its latest
\* instant.
Earliest ==
  {p \in PointSet(data.dataPoints) :
     \A q \in PointSet(data.dataPoints) :
       getTime(p.timestamp) <= getTime(q.timestamp)}

Latest ==
  {p \in PointSet(data.dataPoints) :
     \A q \in PointSet(data.dataPoints) :
       getTime(q.timestamp) <= getTime(p.timestamp)}

\* C26: the descriptive trend is computed on the time-ordered sequence: for
\* N > 1 points it is (value at the latest timestamp - value at the earliest
\* timestamp) / value at the earliest timestamp * 100, whatever the order of
\* the input (with one point only at the earliest and at the latest instant
\* it is the same number in every order); it is 0 for a single point; on the
\* values 1, 2, 3, 4, 5 it is 400.
C26_TrendOverTime ==
  Described =>
    LET N == Len(data.dataPoints)
        trend == out.ret.results.trend
    IN /\ N = 1 => trend = Int2Number(0)
       /\ N > 1 =>
            /\ \E first \in Earliest, last \in Latest :
                 trend = PercentChange(first.value, last.value)
            /\ (Cardinality(Earliest) = 1 /\ Cardinality(Latest) = 1) =>
                 \A f \in Orders(N) :
                   analyzeTimeSeries(Reordered(data, f),
                                     OptionsOf(out.call)).results.trend = trend
       /\ (N = 5 /\ \A v \in 1..5 : \E i \in 1..5 :
                      /\ data.dataPoints[i].value = v
                      /\ getTime(data.dataPoints[i].timestamp) = v - 1) =>
            trend = Int2Number(400)

C26_Witness ==
  /\ Described
  /\ Len(data.dataPoints) = 5
  /\ data.dataPoints[1].value = 4
  /\ data.dataPoints[3].value = 5
  /\ out.ret.results.trend = Int2Number(400)

\* A trend over three points given out of the order of time.
C26_WitnessUnordered ==
  /\ Described
  /\ Len(data.dataPoints) = 3
  /\ data.dataPoints[1].value = 2 /\ getTime(data.dataPoints[1].timestamp) = 3
  /\ data.dataPoints[2].value = 0 /\ getTime(data.dataPoints[2].timestamp) = 1
  /\ data.dataPoints[3].value = 1 /\ getTime(data.dataPoints[3].timestamp) = 0
  /\ out.ret.results.trend = Int2Number(100)

\* The outcome is a logistic-regression result.
LogisticFitted ==
  /\ Analyzed
  /\ out.ret.status = "ok"
  /\ out.ret.resultType = "logistic-regression"

\* The labels in the order of sortedPairs.
RankedLabels ==
  [i \in 1..Len(out.ret.results.sortedPairs) |->
     out.ret.results.sortedPairs[i].actual]

\* The number of labels that are c.
LabelCount(c) ==
  Cardinality({i \in 1..Len(RankedLabels) : RankedLabels[i] = c})

\* The number of (positive, negative) pairs with the positive ranked first.
ConcordantPairs ==
  Cardinality({ij \in (1..Len(RankedLabels)) \X (1..Len(RankedLabels)) :
                 /\ ij[1] < ij[2]
                 /\ RankedLabels[ij[1]] = 1
                 /\ RankedLabels[ij[2]] = 0})

\* C29: the AUC of a logistic regression is computed over the labels in
\* descending order of predicted probability; it equals the number of
\* (positive, negative) pairs with the positive ranked before the negative,
\* divided by positives * negatives; it lies in [0, 1]; it is 0 when the
\* labels are all of one class.
C29_AucCountsPairs ==
  LogisticFitted =>
    LET r == out.ret.results
    IN /\ Len(r.sortedPairs) = Len(r.binarizedY)
       /\ LabelCount(1) = Cardinality({i \in 1..Len(r.binarizedY) :
                                         r.binarizedY[i] = 1})
       /\ \A i, j \in 1..Len(r.sortedPairs) :
            i < j => ~LessThan(r.sortedPairs[i].prob, r.sortedPairs[j].prob)
       /\ IF LabelCount(1) > 0 /\ LabelCount(0) > 0
          THEN r.auc = Number(ConcordantPairs, LabelCount(1) * LabelCount(0))
          ELSE r.auc = Int2Number(0)
       /\ IsRate(r.auc)

C29_Witness ==
  /\ LogisticFitted
  /\ descent = "negative"
  /\ RankedLabels = <<1, 0, 1>>
  /\ ConcordantPairs = 1
  /\ out.ret.results.auc = Number(1, 2)

\* The zero case of C29 happens.
C29_WitnessOneClass ==
  /\ LogisticFitted
  /\ LabelCount(0) = 3
  /\ out.ret.results.auc = Int2Number(0)

\* The outcome is a Poisson regression with the identity or the sqrt link.
PoissonFitted ==
  /\ Analyzed
  /\ out.ret.status = "ok"
  /\ out.ret.resultType = "poisson-regression"
  /\ out.ret.results.linkFunction \in {"identity", "sqrt"}

\* No pass changed the coefficients, which are 0.
ZeroCoefficients ==
  /\ out.ret.results.iterations = 20
  /\ out.ret.results.updates = 0
  /\ out.ret.results.intercept = Int2Number(0)
  /\ out.ret.results.slope = Int2Number(0)

\* C30: with linkFunction 'identity' or 'sqrt' the regression starts from
\* intercept = slope = 0, where every per-observation mean is 0; the update
\* is skipped in each of the 20 passes, so the returned intercept and slope
\* are 0 and every prediction is 0, for every dataset.
C30_DegenerateLinks ==
  PoissonFitted =>
    /\ ZeroCoefficients
    /\ \A i \in 1..Len(out.ret.results.predictions) :
         out.ret.results.predictions[i] = Int2Number(0)

\* The coefficients are 0 for every dataset; the predictions are 0 when the
\* points are at two instants or more and NaN when they are at one.
C30_DegenerateLinksByInstants ==
  PoissonFitted =>
    /\ ZeroCoefficients
    /\ Len(out.ret.results.predictions) = Len(data.dataPoints)
    /\ \A i \in 1..Len(out.ret.results.predictions) :
         out.ret.results.predictions[i] =
           IF \E p, q \in PointSet(data.dataPoints) :
                getTime(p.timestamp) # getTime(q.timestamp)
           THEN Int2Number(0) ELSE NaN

C30_Witness ==
  /\ PoissonFitted
  /\ out.ret.results.linkFunction = "sqrt"
  /\ Len(data.dataPoints) = 3
  /\ data.dataPoints[2].value = 2
  /\ getTime(data.dataPoints[1].timestamp) = 1
  /\ getTime(data.dataPoints[2].timestamp) = 0
  /\ out.ret.results.predictions = <<Int2Number(0), Int2Number(0), Int2Number(0)>>

\* The failure the order of the checks gives a call: the missing target of
\* the three regression types, then the named series without points, then
\* the unknown type; "routine" when none of the three applies.
FirstFailure ==
  IF /\ out.call.type \in {"regression", "logistic-regression",
                           "poisson-regression"}
     /\ ~Truthy(out.call.targetSeries)
  THEN "missingTarget"
  ELSE IF /\ Truthy(out.call.targetSeries)
          /\ Len(extractSeriesData(data, out.call.targetSeries)) = 0
       THEN "emptySeries"
       ELSE IF out.call.type \notin
                 {"descriptive", "regression", "classification", "forecasting",
                  "anomaly", "logistic-regression", "poisson-regression"}
            THEN "unsupportedType"
            ELSE "routine"

\* C28: analyze checks in a fixed order and reports the first failure only:
\* the missing target (of the three regression types), then the empty
\* extracted series, then the unsupported type, then the checks of the
\* routine; a call naming a target series with no points fails with the
\* empty-series error even when the type is unknown or the regression would
\* also lack predictors or aligned data.
C28_FirstFailureOnly ==
  Analyzed =>
    IF FirstFailure = "routine"
    THEN /\ out.ret.error \notin {"missingTarget", "emptySeries", "unsupportedType"}
         /\ out.ret.status = "error" => out.ret.routine = out.call.type
    ELSE /\ out.ret.status = "error"
         /\ out.ret.error = FirstFailure
         /\ out.ret.routine = "none"
         /\ out.ret.results = <<>>

C28_Witness ==
  /\ Analyzed
  /\ out.call.type = "logistic"
  /\ out.call.targetSeries = "A"
  /\ Len(data.dataPoints) >= 2
  /\ out.ret.error = "emptySeries"

\* The regression named in C28: no point of the target, no predictor.
C28_WitnessRegression ==
  /\ Analyzed
  /\ out.call.type = "regression"
  /\ out.call.targetSeries = "A"
  /\ out.call.predictorSeries = <<>>
  /\ Len(data.dataPoints) >= 2
  /\ out.ret.error = "emptySeries"

(* -------- C27 -------- *)

\* The call is in the loop of its routine.
Looping(o) == o.ret.status = "running"

\* The whole passes a loop with the given bound makes: as many as there are
\* whole numbers from 1 up to the bound.
WholePasses(bound) == IF bound.n < 0 THEN 0 ELSE bound.n \div bound.d

\* C27: every call ends, with a result or an error, and the loops make
\* exactly their count of passes: 1000 the gradient descent, 20 the Poisson
\* reweighting, forecastHorizon the forecast.  Stated on the steps: in a
\* loop the count is a whole number that the passes done do not exceed, and
\* the loop is left, with a result or an error, after exactly that count
\* of passes.
C27_LoopsRunTheirCount ==
  [][/\ Looping(out') =>
          /\ loopBound(out'.call).d = 1
          /\ out'.ret.results.passes <= loopBound(out'.call).n
     /\ Looping(out) /\ ~Looping(out') =>
          /\ out'.ret.status \in {"ok", "error"}
          /\ Int2Number(out.ret.results.passes) = loopBound(out.call)]_vars

\* What holds of the loops: a loop with a finite bound is left after the
\* whole passes within the bound, which are 1000 and 20 for the two
\* regressions, and a loop is never left earlier.
C27_LoopsRunWholePasses ==
  [][/\ Looping(out') /\ loopBound(out'.call).d # 0 =>
          out'.ret.results.passes <= WholePasses(loopBound(out'.call))
     /\ Looping(out) /\ ~Looping(out') =>
          /\ out'.ret.status = "ok"
          /\ loopBound(out.call).d # 0
          /\ out.ret.results.passes = WholePasses(loopBound(out.call))
          /\ out.call.type = "logistic-regression" =>
                out.ret.results.passes = 1000 /\ out'.ret.results.iterations = 1000
          /\ out.call.type = "poisson-regression" =>
                out.ret.results.passes = 20 /\ out'.ret.results.iterations = 20
          /\ out.call.type = "forecasting" =>
                Len(out'.ret.results.movingAverages)
                  = Len(out'.ret.input) + out.ret.results.passes]_vars

\* A forecast with a horizon of two and a half has left its loop.
C27_Witness ==
  /\ out.call.type = "forecasting"
  /\ out.call.knobs.forecastHorizon = <<Number(5, 2)>>
  /\ out.ret.status = "ok"
  /\ Len(out.ret.results.movingAverages) = Len(out.ret.input) + 2

\* A forecast without end is in its loop after as many passes as are
\* followed.
C27_WitnessEndless ==
  /\ Looping(out)
  /\ out.call.knobs.forecastHorizon = <<Number(1, 0)>>
  /\ out.ret.results.passes = MaxPasses

====
